---- MODULE Spec2Model ----
(***************************************************************************)
(* Multi-tenant OAuth 2.1 authorization core of the MCP travel server:     *)
(*   - Dynamic Client Registration Lambda   (infra/lambda/dcr/dcr.mjs)     *)
(*   - OpenID configuration proxy Lambda    (infra/lambda/openid-config)   *)
(*   - POST /mcp pipeline: bearer middleware, processJwt, tool handlers,   *)
(*     STS credential derivation            (src/auth, src/mcp, services)  *)
(*   - RFC 9728 protected-resource metadata (src/auth/oauth-metadata.js)   *)
(* Each component has its own specification (SpecDcr, SpecProxy, SpecMcp,  *)
(* SpecMeta) over the shared variable tuple; a component's actions leave   *)
(* the other components' variables unchanged.                              *)
(*                                                                         *)
(* Text that the code inspects character by character (URIs, environment   *)
(* values, client names) is a sequence of one-character strings.  Member   *)
(* names of JSON objects and header names are TLA+ strings.                *)
(***************************************************************************)
EXTENDS Integers, Sequences, FiniteSets, TLC

(***************************************************************************)
(* Characters and strings                                                  *)
(***************************************************************************)

\* printable ASCII, code 32 .. 126, in code order (code 96 is written "grave")
AsciiTable ==
  <<" ", "!", "\"", "#", "$", "%", "&", "'", "(", ")", "*", "+", ",", "-",
    ".", "/", "0", "1", "2", "3", "4", "5", "6", "7", "8", "9", ":", ";",
    "<", "=", ">", "?", "@", "A", "B", "C", "D", "E", "F", "G", "H", "I",
    "J", "K", "L", "M", "N", "O", "P", "Q", "R", "S", "T", "U", "V", "W",
    "X", "Y", "Z", "[", "\\", "]", "^", "_", "grave", "a", "b", "c", "d", "e",
    "f", "g", "h", "i", "j", "k", "l", "m", "n", "o", "p", "q", "r", "s",
    "t", "u", "v", "w", "x", "y", "z", "{", "|", "}", "~">>

Chars == {AsciiTable[i] : i \in 1..Len(AsciiTable)}

\* String.prototype.charCodeAt for one character
CodeOf == [c \in Chars |-> 31 + (CHOOSE i \in 1..Len(AsciiTable) : AsciiTable[i] = c)]

CharOf(code) == AsciiTable[code - 31]

IsUpper(c) == CodeOf[c] >= 65 /\ CodeOf[c] <= 90
IsLowerAlpha(c) == CodeOf[c] >= 97 /\ CodeOf[c] <= 122
IsAlpha(c) == IsUpper(c) \/ IsLowerAlpha(c)
IsDigit(c) == CodeOf[c] >= 48 /\ CodeOf[c] <= 57

ToLowerChar(c) == IF IsUpper(c) THEN CharOf(CodeOf[c] + 32) ELSE c

\* String.prototype.toLowerCase
ToLower(s) == [i \in 1..Len(s) |-> ToLowerChar(s[i])]

\* String.prototype.startsWith
StartsWith(s, p) == Len(s) >= Len(p) /\ SubSeq(s, 1, Len(p)) = p

\* index of the first occurrence of a character of cs in s, 0 when none
IndexOfAny(s, cs) ==
  IF \E i \in 1..Len(s) : s[i] \in cs
  THEN CHOOSE i \in 1..Len(s) : s[i] \in cs /\ \A j \in 1..(i - 1) : s[j] \notin cs
  ELSE 0

\* index of the last occurrence of character c in s, 0 when none
LastIndexOf(s, c) ==
  IF \E i \in 1..Len(s) : s[i] = c
  THEN CHOOSE i \in 1..Len(s) : s[i] = c /\ \A j \in (i + 1)..Len(s) : s[j] # c
  ELSE 0

\* String.prototype.trim (space is the only whitespace of the alphabet)
RECURSIVE TrimLeft(_)
TrimLeft(s) == IF s # <<>> /\ Head(s) = " " THEN TrimLeft(Tail(s)) ELSE s

RECURSIVE TrimRight(_)
TrimRight(s) ==
  IF s # <<>> /\ s[Len(s)] = " " THEN TrimRight(SubSeq(s, 1, Len(s) - 1)) ELSE s

Trim(s) == TrimRight(TrimLeft(s))

\* relational comparison of two strings by code unit (the order the default
\* comparator of Array.prototype.sort uses on strings)
RECURSIVE StrLess(_, _)
StrLess(a, b) ==
  IF b = <<>> THEN FALSE
  ELSE IF a = <<>> THEN TRUE
  ELSE IF CodeOf[Head(a)] < CodeOf[Head(b)] THEN TRUE
  ELSE IF CodeOf[Head(a)] > CodeOf[Head(b)] THEN FALSE
  ELSE StrLess(Tail(a), Tail(b))

\* decimal value of a digit string
RECURSIVE ParseDigits(_)
ParseDigits(s) ==
  IF s = <<>> THEN 0
  ELSE 10 * ParseDigits(SubSeq(s, 1, Len(s) - 1)) + (CodeOf[s[Len(s)]] - 48)

(***************************************************************************)
(* new URL(text): the WHATWG parser for the inputs the handlers see.       *)
(* Result [ok, protocol, host]; ok = FALSE is the TypeError.               *)
(***************************************************************************)

STR_http == <<"h", "t", "t", "p">>
STR_https == <<"h", "t", "t", "p", "s">>
STR_ftp == <<"f", "t", "p">>
STR_ws == <<"w", "s">>
STR_wss == <<"w", "s", "s">>

SpecialSchemes == {STR_http, STR_https, STR_ftp, STR_ws, STR_wss}

MaxPort == 65535

IsSchemeChar(c) == IsAlpha(c) \/ IsDigit(c) \/ c \in {"+", "-", "."}

ForbiddenHostChars == {" ", "#", "/", ":", "<", ">", "?", "@", "[", "\\", "]", "^", "|", "%"}

UrlFailure == [ok |-> FALSE, protocol |-> <<>>, host |-> <<>>]

\* authority of a special URL: everything after the scheme's ':' once the
\* leading slashes are skipped, up to the first path, query or fragment mark
RECURSIVE SkipSlashes(_)
SkipSlashes(s) ==
  IF s # <<>> /\ Head(s) \in {"/", "\\"} THEN SkipSlashes(Tail(s)) ELSE s

Authority(rest) ==
  LET r == SkipSlashes(rest)
      e == IndexOfAny(r, {"/", "\\", "?", "#"})
  IN  IF e = 0 THEN r ELSE SubSeq(r, 1, e - 1)

ParseSpecial(scheme, rest) ==
  LET auth == Authority(rest)
      at == LastIndexOf(auth, "@")
      hostport == SubSeq(auth, at + 1, Len(auth))
      colon == IndexOfAny(hostport, {":"})
      host == IF colon = 0 THEN hostport ELSE SubSeq(hostport, 1, colon - 1)
      port == IF colon = 0 THEN <<>> ELSE SubSeq(hostport, colon + 1, Len(hostport))
  IN  IF host = <<>> THEN UrlFailure
      ELSE IF \E i \in 1..Len(host) : host[i] \in ForbiddenHostChars THEN UrlFailure
      ELSE IF \E i \in 1..Len(port) : ~IsDigit(port[i]) THEN UrlFailure
      ELSE IF Len(port) > 5 \/ ParseDigits(port) > MaxPort THEN UrlFailure
      ELSE [ok |-> TRUE, protocol |-> scheme, host |-> ToLower(host)]

ParseURL(text) ==
  LET s == Trim(text)
      colon == IndexOfAny(s, {":"})
      scheme == ToLower(SubSeq(s, 1, colon - 1))
  IN  IF colon <= 1 THEN UrlFailure
      ELSE IF ~IsAlpha(s[1]) THEN UrlFailure
      ELSE IF \E i \in 1..(colon - 1) : ~IsSchemeChar(s[i]) THEN UrlFailure
      ELSE IF scheme \in SpecialSchemes
           THEN ParseSpecial(scheme, SubSeq(s, colon + 1, Len(s)))
           ELSE [ok |-> TRUE, protocol |-> scheme, host |-> <<>>]

(***************************************************************************)
(* Buffer.from(text).toString('base64url')                                 *)
(***************************************************************************)

Base64UrlAlphabet ==
  <<"A", "B", "C", "D", "E", "F", "G", "H", "I", "J", "K", "L", "M", "N",
    "O", "P", "Q", "R", "S", "T", "U", "V", "W", "X", "Y", "Z", "a", "b",
    "c", "d", "e", "f", "g", "h", "i", "j", "k", "l", "m", "n", "o", "p",
    "q", "r", "s", "t", "u", "v", "w", "x", "y", "z", "0", "1", "2", "3",
    "4", "5", "6", "7", "8", "9", "-", "_">>

B64(n) == Base64UrlAlphabet[n + 1]

\* the bytes are the character codes (the alphabet is ASCII); three bytes make
\* four digits, a tail of one byte two digits and of two bytes three, unpadded
RECURSIVE Base64Url(_)
Base64Url(s) ==
  IF s = <<>> THEN <<>>
  ELSE IF Len(s) = 1 THEN
    LET a == CodeOf[s[1]]
    IN  <<B64(a \div 4), B64((a % 4) * 16)>>
  ELSE IF Len(s) = 2 THEN
    LET a == CodeOf[s[1]]
        b == CodeOf[s[2]]
    IN  <<B64(a \div 4), B64((a % 4) * 16 + b \div 16), B64((b % 16) * 4)>>
  ELSE
    LET a == CodeOf[s[1]]
        b == CodeOf[s[2]]
        c == CodeOf[s[3]]
    IN  <<B64(a \div 4), B64((a % 4) * 16 + b \div 16),
          B64((b % 16) * 4 + c \div 64), B64(c % 64)>>
        \o Base64Url(SubSeq(s, 4, Len(s)))

(***************************************************************************)
(* JSON values.  A value is [t, v]: t the JavaScript type, v the payload.  *)
(* An object is a function from member names to values.                    *)
(***************************************************************************)

Undefined == [t |-> "undefined", v |-> <<>>]
JStr(chars) == [t |-> "string", v |-> chars]
\* a string whose content is a fixed literal of the program text
JTxt(text) == [t |-> "text", v |-> text]
JArr(elems) == [t |-> "array", v |-> elems]
JNum(n) == [t |-> "number", v |-> n]

EmptyObject == [k \in {} |-> Undefined]

\* obj[k], undefined for a member the object does not have
Member(obj, k) == IF k \in DOMAIN obj THEN obj[k] ELSE Undefined

\* ToBoolean
Truthy(val) ==
  CASE val.t = "undefined" -> FALSE
    [] val.t = "string" -> val.v # <<>>
    [] val.t = "text" -> val.v # ""
    [] val.t = "number" -> val.v # 0
    [] OTHER -> TRUE

\* { ...a, ...b }
Spread(a, b) ==
  [k \in (DOMAIN a) \cup (DOMAIN b) |-> IF k \in DOMAIN b THEN b[k] ELSE a[k]]

\* Array.prototype.includes
Includes(arr, x) == \E i \in 1..Len(arr) : arr[i] = x

(***************************************************************************)
(* Dynamic Client Registration: pure parts of dcr.mjs                      *)
(***************************************************************************)

STR_undefined == <<"u", "n", "d", "e", "f", "i", "n", "e", "d">>
STR_httpsPrefix == <<"h", "t", "t", "p", "s", ":", "/", "/">>
STR_httpLocalhostPrefix ==
  <<"h", "t", "t", "p", ":", "/", "/", "l", "o", "c", "a", "l", "h", "o", "s", "t">>
STR_localhost == <<"l", "o", "c", "a", "l", "h", "o", "s", "t">>
STR_InvalidUriFormat ==
  <<"I", "n", "v", "a", "l", "i", "d", " ", "U", "R", "I", " ", "f", "o", "r",
    "m", "a", "t", ":", " ">>

\* [...redirectUris].sort(): insertion into code-unit order
RECURSIVE InsertSorted(_, _)
InsertSorted(x, sorted) ==
  IF sorted = <<>> THEN <<x>>
  ELSE IF StrLess(x, Head(sorted)) THEN <<x>> \o sorted
  ELSE <<Head(sorted)>> \o InsertSorted(x, Tail(sorted))

RECURSIVE SortStrings(_)
SortStrings(arr) ==
  IF arr = <<>> THEN <<>> ELSE InsertSorted(Head(arr), SortStrings(Tail(arr)))

\* Array.prototype.join(',')
RECURSIVE JoinComma(_)
JoinComma(arr) ==
  IF arr = <<>> THEN <<>>
  ELSE IF Len(arr) = 1 THEN arr[1]
  ELSE arr[1] \o <<",">> \o JoinComma(Tail(arr))

\* `${value}` of a client_name that is a string or undefined
TemplateString(val) == IF val.t = "undefined" THEN STR_undefined ELSE val.v

\* a key built from the URIs in the order the request gives them
createClientKey_unsorted(clientName, redirectUris) ==
  TemplateString(clientName) \o <<"#">> \o Base64Url(JoinComma(redirectUris))

createClientKey(clientName, redirectUris) ==
  LET sortedUris == JoinComma(SortStrings(redirectUris))
      encodedUris == Base64Url(sortedUris)
  IN  TemplateString(clientName) \o <<"#">> \o encodedUris

\* the test of one redirect URI inside the validation loop:
\* "ok", "scheme" (neither prefix matches) or "format" (new URL threw)
RedirectUriPrefixOk(uri) ==
  StartsWith(uri, STR_httpsPrefix) \/ StartsWith(uri, STR_httpLocalhostPrefix)

RedirectUriCheck(uri) ==
  IF ~ParseURL(uri).ok THEN "format"
  ELSE IF ~RedirectUriPrefixOk(uri) THEN "scheme"
  ELSE "ok"

\* index of the first URI the loop rejects, 0 when it accepts all
FirstRejected(uris) ==
  IF \E i \in 1..Len(uris) : RedirectUriCheck(uris[i]) # "ok"
  THEN CHOOSE i \in 1..Len(uris) :
         /\ RedirectUriCheck(uris[i]) # "ok"
         /\ \A j \in 1..(i - 1) : RedirectUriCheck(uris[j]) = "ok"
  ELSE 0

KnownMembers ==
  {"redirect_uris", "client_name", "token_endpoint_auth_method", "grant_types",
   "response_types", "scope", "contacts", "logo_uri", "client_uri", "policy_uri",
   "tos_uri", "jwks_uri", "jwks", "software_id", "software_version"}

\* optional members echoed when truthy
EchoedMembers ==
  {"client_name", "scope", "contacts", "logo_uri", "client_uri", "policy_uri",
   "tos_uri", "jwks_uri", "jwks", "software_id", "software_version"}

\* member names of the bounded inputs that start with 'client_name#'
I18nMemberNames == {"client_name#ja"}

\* destructuring defaults
GrantTypesOf(body) ==
  IF "grant_types" \in DOMAIN body THEN body["grant_types"]
  ELSE JArr(<<"authorization_code">>)

ResponseTypesOf(body) ==
  IF "response_types" \in DOMAIN body THEN body["response_types"]
  ELSE JArr(<<"code">>)

\* ...extensionParams: the members the destructuring pattern does not name
ExtensionParams(body) ==
  [k \in (DOMAIN body) \ KnownMembers |-> body[k]]

I18nNames(body) ==
  [k \in (DOMAIN body) \cap I18nMemberNames |-> body[k]]

DcrHeaders ==
  [k \in {"Content-Type", "Cache-Control", "Access-Control-Allow-Origin", "Pragma"} |->
     CASE k = "Content-Type" -> "application/json"
       [] k = "Cache-Control" -> "no-store"
       [] k = "Access-Control-Allow-Origin" -> "*"
       [] OTHER -> "no-cache"]

\* a helper that marks only the 201 as not to be stored
jsonResponse_createdOnly(statusCode, bodyObj) ==
  [statusCode |-> statusCode,
   headers |-> IF statusCode = 201 THEN DcrHeaders
               ELSE [k \in {"Content-Type"} |-> "application/json"],
   body |-> bodyObj]

jsonResponse(statusCode, bodyObj) ==
  [statusCode |-> statusCode, headers |-> DcrHeaders, body |-> bodyObj]

ErrorBody(error, description) ==
  [k \in {"error", "error_description"} |->
     IF k = "error" THEN JTxt(error) ELSE description]

\* the 201 body: fixed members, truthy optional members, then the i18n names
\* and the extension members spread over them
RegistrationBody(body, clientId, now) ==
  LET fixed ==
        [k \in {"client_id", "client_id_issued_at", "redirect_uris", "grant_types",
                "response_types", "token_endpoint_auth_method"} |->
           CASE k = "client_id" -> JStr(clientId)
             [] k = "client_id_issued_at" -> JNum(now)
             [] k = "redirect_uris" -> body["redirect_uris"]
             [] k = "grant_types" -> GrantTypesOf(body)
             [] k = "response_types" -> ResponseTypesOf(body)
             [] OTHER -> JTxt("none")]
      optional ==
        [k \in {m \in EchoedMembers : Truthy(Member(body, m))} |-> body[k]]
  IN  Spread(Spread(Spread(fixed, optional), I18nNames(body)), ExtensionParams(body))

\* the synchronous prefix of the handler, up to the first await: the response
\* it returns, or statusCode 0 when it goes on to the dedup lookup
NoResponse == [statusCode |-> 0, headers |-> [k \in {} |-> ""], body |-> EmptyObject]

ContentTypeOf(headers) ==
  IF "Content-Type" \in DOMAIN headers /\ headers["Content-Type"] # ""
  THEN headers["Content-Type"]
  ELSE IF "content-type" \in DOMAIN headers THEN headers["content-type"]
  ELSE ""

ValidateRedirectUris(redirect_uris) ==
  IF ~Truthy(redirect_uris) \/ redirect_uris.t # "array" \/ Len(redirect_uris.v) = 0
  THEN jsonResponse(400, ErrorBody("invalid_redirect_uri",
         JTxt("redirect_uris is required and must be a non-empty array")))
  ELSE LET i == FirstRejected(redirect_uris.v)
       IN  IF i = 0 THEN NoResponse
           ELSE IF RedirectUriCheck(redirect_uris.v[i]) = "scheme"
           THEN jsonResponse(400, ErrorBody("invalid_redirect_uri",
                  JTxt("redirect_uris must use HTTPS or localhost")))
           ELSE jsonResponse(400, ErrorBody("invalid_redirect_uri",
                  JStr(STR_InvalidUriFormat \o redirect_uris.v[i])))

ValidateGrantTypes(body) ==
  IF Includes(GrantTypesOf(body).v, "authorization_code")
     /\ ~Includes(ResponseTypesOf(body).v, "code")
  THEN jsonResponse(400, ErrorBody("invalid_client_metadata",
         JTxt("authorization_code grant requires code response_type")))
  ELSE NoResponse

ServerErrorResponse ==
  jsonResponse(500, ErrorBody("server_error", JTxt("Internal server error")))

\* event.body is absent, text that is not JSON, the JSON text null, or the
\* JSON text of an object
HandlerPrefix(event, env) ==
  IF event.httpMethod # "POST"
  THEN jsonResponse(405, ErrorBody("invalid_request", JTxt("Only POST method is allowed")))
  ELSE IF ContentTypeOf(event.headers) # "application/json"
  THEN jsonResponse(400, ErrorBody("invalid_request",
         JTxt("Content-Type must be application/json")))
  ELSE IF event.body.kind = "garbage"
  THEN jsonResponse(400, ErrorBody("invalid_request", JTxt("Invalid JSON in request body")))
  ELSE IF ~("COGNITO_USER_POOL_ID" \in DOMAIN env /\ env["COGNITO_USER_POOL_ID"] # <<>>)
  THEN jsonResponse(500, ErrorBody("server_error", JTxt("Server configuration error")))
  ELSE IF event.body.kind = "null"
  THEN ServerErrorResponse
  ELSE LET body == IF event.body.kind = "absent" THEN EmptyObject ELSE event.body.obj
           uris == ValidateRedirectUris(Member(body, "redirect_uris"))
       IN  IF uris.statusCode # 0 THEN uris ELSE ValidateGrantTypes(body)

(***************************************************************************)
(* State                                                                   *)
(***************************************************************************)

VARIABLES
  dcrEnv,        \* process.env of the registration Lambda
  dcrScenario,   \* the requests clients may send and whether collaborators may fail
  dcrReq,        \* one record per handler invocation
  dcrTable,      \* the PUBLIC_CLIENTS_TABLE items, by clientKey
  dcrUserPool,   \* the app clients of the Cognito user pool, in creation order
  dcrClock,      \* Date.now() of the registration Lambda
  proxyEnv,      \* process.env of the OpenID configuration Lambda
  proxyReq,      \* one record per handler invocation
  cachedConfig,  \* module variable cachedConfig
  cacheExpiry,   \* module variable cacheExpiry
  proxyNow,      \* Date.now() of the OpenID configuration Lambda, in ms
  proxyTicks,    \* how often proxyNow has advanced
  mcpScenario,   \* the POST /mcp requests clients may send and the pool id
  mcpReq,        \* one record per POST /mcp request
  metaEnv,       \* process.env and the .env file of the MCP server
  metaReq        \* one record per protected-resource metadata request

dcrVars == <<dcrEnv, dcrScenario, dcrReq, dcrTable, dcrUserPool, dcrClock>>

proxyVars == <<proxyEnv, proxyReq, cachedConfig, cacheExpiry, proxyNow, proxyTicks>>

mcpVars == <<mcpScenario, mcpReq>>

metaVars == <<metaEnv, metaReq>>

vars == <<dcrVars, proxyVars, mcpVars, metaVars>>

\* what the actions of one component leave alone
nonDcrVars == <<proxyVars, mcpVars, metaVars>>
nonProxyVars == <<dcrVars, mcpVars, metaVars>>
nonMcpVars == <<dcrVars, proxyVars, metaVars>>
nonMetaVars == <<dcrVars, proxyVars, mcpVars>>

(***************************************************************************)
(* Dynamic Client Registration: requests                                   *)
(***************************************************************************)

\* number of handler invocations of the registration Lambda
MaxReqs == 2

DcrReqs == 1..MaxReqs

URI_A == <<"h", "t", "t", "p", "s", ":", "/", "/", "a", ".", "i", "o", "/", "c", "b">>
URI_B == <<"h", "t", "t", "p", "s", ":", "/", "/", "b", ".", "i", "o", "/", "c", "b">>
URI_LOCAL ==
  <<"h", "t", "t", "p", ":", "/", "/", "l", "o", "c", "a", "l", "h", "o", "s", "t",
    ":", "3", "0", "0", "0", "/", "c", "b">>
URI_FTP == <<"f", "t", "p", ":", "/", "/", "x">>
URI_HTTP_REMOTE ==
  <<"h", "t", "t", "p", ":", "/", "/", "e", "x", "a", "m", "p", "l", "e", ".",
    "c", "o", "m", "/", "c", "b">>
URI_LOCALHOST_PREFIX ==
  <<"h", "t", "t", "p", ":", "/", "/", "l", "o", "c", "a", "l", "h", "o", "s", "t",
    ".", "e", "v", "i", "l", ".", "c", "o", "m", "/", "c", "b">>
URI_UNPARSABLE == <<"n", "o", "t", " ", "a", " ", "u", "r", "i">>
URI_NO_HOST == <<"h", "t", "t", "p", "s", ":", "/", "/">>

NAME_cli == <<"c", "l", "i">>
NAME_default ==
  <<"O", "A", "u", "t", "h", " ", "D", "y", "n", "a", "m", "i", "c", " ", "C",
    "l", "i", "e", "n", "t">>
TEXT_secret == <<"s", "3", "c", "r", "3", "t">>
TEXT_poolId == <<"u", "s", "-", "e", "a", "s", "t", "-", "1", "_", "A", "B", "C">>

JsonHeaders == [k \in {"Content-Type"} |-> "application/json"]

Post(obj) ==
  [httpMethod |-> "POST", headers |-> JsonHeaders,
   body |-> [kind |-> "object", obj |-> obj]]

PostRaw(kind) ==
  [httpMethod |-> "POST", headers |-> JsonHeaders,
   body |-> [kind |-> kind, obj |-> EmptyObject]]

Uris(seq) == "redirect_uris" :> JArr(seq)

\* Scenario A: {"redirect_uris":["http://localhost:3000/cb"],"client_name":"cli"}
EV_cli == Post(Uris(<<URI_LOCAL>>) @@ ("client_name" :> JStr(NAME_cli)))

\* the same registration asking for a confidential client
EV_cliSecret ==
  Post(Uris(<<URI_LOCAL>>) @@ ("client_name" :> JStr(NAME_cli))
       @@ ("token_endpoint_auth_method" :> JTxt("client_secret_basic"))
       @@ ("client_secret" :> JStr(TEXT_secret))
       @@ ("software_id" :> JTxt("sw-1")))

EV_get == [Post(Uris(<<URI_A>>)) EXCEPT !.httpMethod = "GET"]

EV_formPost ==
  [Post(Uris(<<URI_A>>)) EXCEPT
     !.headers = [k \in {"content-type"} |-> "application/x-www-form-urlencoded"]]

\* API Gateway may deliver the header name in lower case
EV_lowerCaseHeader ==
  [Post(Uris(<<URI_A>>)) EXCEPT !.headers = [k \in {"content-type"} |-> "application/json"]]

EV_garbage == PostRaw("garbage")
EV_null == PostRaw("null")
EV_noBody == PostRaw("absent")
EV_noUris == Post("client_name" :> JStr(NAME_cli))
EV_urisNotArray == Post("redirect_uris" :> JStr(URI_A))
EV_urisEmpty == Post(Uris(<<>>))
EV_ftp == Post(Uris(<<URI_FTP>>))
EV_httpRemote == Post(Uris(<<URI_HTTP_REMOTE>>))
EV_unparsable == Post(Uris(<<URI_UNPARSABLE>>))
EV_noHost == Post(Uris(<<URI_NO_HOST>>))
EV_secondBad == Post(Uris(<<URI_A, URI_FTP>>))
EV_localhostPrefix == Post(Uris(<<URI_LOCALHOST_PREFIX>>))

\* Scenario E: grant_types=["authorization_code"], response_types=["token"]
EV_grantMismatch ==
  Post(Uris(<<URI_A>>) @@ ("grant_types" :> JArr(<<"authorization_code">>))
       @@ ("response_types" :> JArr(<<"token">>)))

EV_implicit ==
  Post(Uris(<<URI_A>>) @@ ("grant_types" :> JArr(<<"implicit">>))
       @@ ("response_types" :> JArr(<<"token">>)))

\* response_types=["token"] with grant_types left to its default
EV_responseOnly == Post(Uris(<<URI_A>>) @@ ("response_types" :> JArr(<<"token">>)))

\* one redirect URI whose path holds a comma: the text of URI_A,URI_B
URI_A_COMMA_B == URI_A \o <<",">> \o URI_B

EV_commaUri == Post(Uris(<<URI_A_COMMA_B>>) @@ ("client_name" :> JStr(NAME_cli)))

\* a body that names a client_id and a client_id_issued_at of its own
EV_ownClientId ==
  Post(Uris(<<URI_A>>) @@ ("client_name" :> JStr(NAME_cli))
       @@ ("client_id" :> JStr(<<"c", "9">>))
       @@ ("client_id_issued_at" :> JNum(1)))

\* one registration with its two redirect URIs in either order
EV_ab == Post(Uris(<<URI_A, URI_B>>) @@ ("client_name" :> JStr(NAME_cli)))
EV_ba == Post(Uris(<<URI_B, URI_A>>) @@ ("client_name" :> JStr(NAME_cli)))

DcrEvents ==
  <<EV_cli, EV_cliSecret, EV_get, EV_formPost, EV_lowerCaseHeader, EV_garbage,
    EV_null, EV_noBody, EV_noUris, EV_urisNotArray, EV_urisEmpty, EV_ftp,
    EV_httpRemote, EV_unparsable, EV_noHost, EV_secondBad, EV_localhostPrefix,
    EV_grantMismatch, EV_implicit, EV_ab, EV_ba, EV_responseOnly, EV_ownClientId,
    EV_commaUri>>

\* the requests of a scenario, as indexes of DcrEvents
DcrScenarios ==
  { [events |-> {1}, faults |-> TRUE],
    [events |-> {1, 2}, faults |-> FALSE],
    [events |-> {3, 4, 6, 7, 8, 9, 10, 11, 12, 13, 14, 15, 16, 18, 22},
     faults |-> FALSE],
    [events |-> {5, 17, 19}, faults |-> FALSE],
    [events |-> {20, 21}, faults |-> FALSE],
    [events |-> {23}, faults |-> FALSE],
    [events |-> {20, 24}, faults |-> FALSE] }

DcrEnvs ==
  { [k \in {"COGNITO_USER_POOL_ID"} |-> TEXT_poolId],
    [k \in {"COGNITO_USER_POOL_ID"} |-> <<>>],
    [k \in {} |-> <<>>] }

(***************************************************************************)
(* Dynamic Client Registration: the handler, one action per await          *)
(***************************************************************************)

DcrStages == {"get", "describe", "create", "put", "branding"}

NoCalls == [st \in DcrStages |-> 0]

IdleDcrReq ==
  [pc |-> "idle", ev |-> 0, clientId |-> <<>>, created |-> FALSE,
   response |-> NoResponse, calls |-> NoCalls, failed |-> {}, after |-> {}]

DcrBody(r) ==
  LET b == DcrEvents[dcrReq[r].ev].body
  IN  IF b.kind = "absent" THEN EmptyObject ELSE b.obj

\* createClientKey(client_name, redirect_uris) of each event that names an
\* array of redirect URIs
DcrKeyOfEvent ==
  [e \in {n \in 1..Len(DcrEvents) :
            /\ DcrEvents[n].body.kind = "object"
            /\ Member(DcrEvents[n].body.obj, "redirect_uris").t = "array"} |->
     createClientKey(Member(DcrEvents[e].body.obj, "client_name"),
                     DcrEvents[e].body.obj["redirect_uris"].v)]

DcrKey(r) == DcrKeyOfEvent[dcrReq[r].ev]

\* ClientId of the n-th client the user pool creates
ClientIdOf(n) == <<"c", CharOf(48 + n)>>

\* outcomes of a collaborator call
Outcomes == IF dcrScenario.faults THEN BOOLEAN ELSE {TRUE}

Called(rec, st, ok) ==
  [rec EXCEPT !.calls[st] = @ + 1,
              !.failed = IF ok THEN @ ELSE @ \cup {st}]

\* a lookup that never finds the item
FoundItem_neverFound(table, key) ==
  [clientKey |-> key, clientId |-> <<>>, createdAt |-> 0]

\* result.Item of GetItem
FoundItem(table, key) ==
  IF key \in DOMAIN table THEN table[key] ELSE [clientKey |-> key, clientId |-> <<>>, createdAt |-> 0]

\* a storePublicClient that builds the item and never sends the PutItemCommand
PutItem_notSent(table, key, clientId, now) == table

\* a conditional PutItem (attribute_not_exists): an existing entry is kept
PutItem_ifAbsent(table, key, clientId, now) ==
  IF key \in DOMAIN table THEN table
  ELSE [k \in (DOMAIN table) \cup {key} |->
          IF k = key THEN [clientKey |-> key, clientId |-> clientId, createdAt |-> now]
          ELSE table[k]]

\* the table after PutItem of {clientKey, clientId, createdAt}
PutItem(table, key, clientId, now) ==
  [k \in (DOMAIN table) \cup {key} |->
     IF k = key THEN [clientKey |-> key, clientId |-> clientId, createdAt |-> now]
     ELSE table[k]]

CreatedResponse(r, clientId) ==
  jsonResponse(201, RegistrationBody(DcrBody(r), clientId, dcrClock))

\* a handler that sends the dedup read of a POST before it validates the body
DcrInvoke_readsFirst(r, e) ==
  /\ dcrReq[r].pc = "idle"
  /\ IF r = 1 THEN TRUE ELSE dcrReq[r - 1].pc # "idle"
  /\ e \in dcrScenario.events
  /\ LET resp == HandlerPrefix(DcrEvents[e], dcrEnv)
     IN  dcrReq' = [dcrReq EXCEPT ![r] =
           [@ EXCEPT !.ev = e,
                     !.after = {q \in DcrReqs : dcrReq[q].pc = "done"},
                     !.response = resp,
                     !.calls = [@ EXCEPT !["get"] =
                                  IF DcrEvents[e].httpMethod = "POST" THEN 1 ELSE 0],
                     !.pc = IF resp.statusCode = 0 THEN "get" ELSE "done"]]
  /\ dcrClock' = dcrClock + 1
  /\ UNCHANGED <<dcrEnv, dcrScenario, dcrTable, dcrUserPool>>
  /\ UNCHANGED nonDcrVars

\* API Gateway invokes the handler; it runs to its first await
DcrInvoke(r, e) ==
  /\ dcrReq[r].pc = "idle"
  /\ IF r = 1 THEN TRUE ELSE dcrReq[r - 1].pc # "idle"
  /\ e \in dcrScenario.events
  /\ LET resp == HandlerPrefix(DcrEvents[e], dcrEnv)
     IN  dcrReq' = [dcrReq EXCEPT ![r] =
           [@ EXCEPT !.ev = e,
                     !.after = {q \in DcrReqs : dcrReq[q].pc = "done"},
                     !.response = resp,
                     !.pc = IF resp.statusCode = 0 THEN "get" ELSE "done"]]
  /\ dcrClock' = dcrClock + 1
  /\ UNCHANGED <<dcrEnv, dcrScenario, dcrTable, dcrUserPool>>
  /\ UNCHANGED nonDcrVars

\* findExistingPublicClient: await dynamodb.send(getCommand)
DcrGetItem(r, ok) ==
  /\ dcrReq[r].pc = "get"
  /\ ok \in Outcomes
  /\ LET item == FoundItem(dcrTable, DcrKey(r))
         hit == ok /\ item.clientId # <<>>
     IN  dcrReq' = [dcrReq EXCEPT ![r] =
           [Called(@, "get", ok) EXCEPT
              !.clientId = IF hit THEN item.clientId ELSE <<>>,
              !.pc = IF hit THEN "describe" ELSE "create"]]
  /\ UNCHANGED <<dcrEnv, dcrScenario, dcrTable, dcrUserPool, dcrClock>>
  /\ UNCHANGED nonDcrVars

\* findExistingPublicClient: await cognito.send(describeCmd), then the response
DcrDescribe(r, ok) ==
  /\ dcrReq[r].pc = "describe"
  /\ ok \in Outcomes
  /\ LET found == \E i \in 1..Len(dcrUserPool) : dcrUserPool[i].ClientId = dcrReq[r].clientId
         existing == ok /\ found
     IN  dcrReq' = [dcrReq EXCEPT ![r] =
           IF existing
           THEN [Called(@, "describe", TRUE) EXCEPT
                   !.response = CreatedResponse(r, dcrReq[r].clientId),
                   !.pc = "done"]
           ELSE [Called(@, "describe", FALSE) EXCEPT
                   !.clientId = <<>>,
                   !.pc = "create"]]
  /\ UNCHANGED <<dcrEnv, dcrScenario, dcrTable, dcrUserPool, dcrClock>>
  /\ UNCHANGED nonDcrVars

\* a creation that is sent again when it is rejected
DcrCreate_retried(r, ok) ==
  /\ dcrReq[r].pc = "create"
  /\ ok \in Outcomes
  /\ LET body == DcrBody(r)
         id == ClientIdOf(Len(dcrUserPool) + 1)
         client ==
           [ClientId |-> id,
            ClientName |-> IF Truthy(Member(body, "client_name"))
                           THEN body["client_name"].v ELSE NAME_default,
            CallbackURLs |-> body["redirect_uris"].v,
            AllowedOAuthFlows |-> IF Includes(GrantTypesOf(body).v, "authorization_code")
                                  THEN <<"code">> ELSE <<>>,
            GenerateSecret |-> FALSE]
     IN  IF ok
         THEN /\ dcrUserPool' = Append(dcrUserPool, client)
              /\ dcrReq' = [dcrReq EXCEPT ![r] =
                   [Called(@, "create", TRUE) EXCEPT
                      !.clientId = id, !.created = TRUE, !.pc = "put"]]
         ELSE /\ dcrUserPool' = dcrUserPool
              /\ dcrReq' = [dcrReq EXCEPT ![r] = Called(@, "create", FALSE)]
  /\ UNCHANGED <<dcrEnv, dcrScenario, dcrTable, dcrClock>>
  /\ UNCHANGED nonDcrVars

\* await cognito.send(createCmd); a rejection reaches the handler's catch
DcrCreate(r, ok) ==
  /\ dcrReq[r].pc = "create"
  /\ ok \in Outcomes
  /\ LET body == DcrBody(r)
         id == ClientIdOf(Len(dcrUserPool) + 1)
         client ==
           [ClientId |-> id,
            ClientName |-> IF Truthy(Member(body, "client_name"))
                           THEN body["client_name"].v ELSE NAME_default,
            CallbackURLs |-> body["redirect_uris"].v,
            AllowedOAuthFlows |-> IF Includes(GrantTypesOf(body).v, "authorization_code")
                                  THEN <<"code">> ELSE <<>>,
            GenerateSecret |-> FALSE]
     IN  IF ok
         THEN /\ dcrUserPool' = Append(dcrUserPool, client)
              /\ dcrReq' = [dcrReq EXCEPT ![r] =
                   [Called(@, "create", TRUE) EXCEPT
                      !.clientId = id, !.created = TRUE, !.pc = "put"]]
         ELSE /\ dcrUserPool' = dcrUserPool
              /\ dcrReq' = [dcrReq EXCEPT ![r] =
                   [Called(@, "create", FALSE) EXCEPT
                      !.response = ServerErrorResponse, !.pc = "done"]]
  /\ UNCHANGED <<dcrEnv, dcrScenario, dcrTable, dcrClock>>
  /\ UNCHANGED nonDcrVars

\* a storePublicClient without its catch: a rejected PutItem reaches the
\* handler's catch
DcrStore_rethrows(r, ok) ==
  /\ dcrReq[r].pc = "put"
  /\ ok \in Outcomes
  /\ dcrTable' = IF ok THEN PutItem(dcrTable, DcrKey(r), dcrReq[r].clientId, dcrClock)
                 ELSE dcrTable
  /\ dcrReq' = [dcrReq EXCEPT ![r] =
       IF ok THEN [Called(@, "put", ok) EXCEPT !.pc = "branding"]
       ELSE [Called(@, "put", ok) EXCEPT !.response = ServerErrorResponse, !.pc = "done"]]
  /\ UNCHANGED <<dcrEnv, dcrScenario, dcrUserPool, dcrClock>>
  /\ UNCHANGED nonDcrVars

\* storePublicClient: await dynamodb.send(putCommand); a rejection is logged
DcrStore(r, ok) ==
  /\ dcrReq[r].pc = "put"
  /\ ok \in Outcomes
  /\ dcrTable' = IF ok THEN PutItem(dcrTable, DcrKey(r), dcrReq[r].clientId, dcrClock)
                 ELSE dcrTable
  /\ dcrReq' = [dcrReq EXCEPT ![r] = [Called(@, "put", ok) EXCEPT !.pc = "branding"]]
  /\ UNCHANGED <<dcrEnv, dcrScenario, dcrUserPool, dcrClock>>
  /\ UNCHANGED nonDcrVars

\* await cognito.send(brandingCmd); a rejection is logged; then the response
DcrBranding(r, ok) ==
  /\ dcrReq[r].pc = "branding"
  /\ ok \in Outcomes
  /\ dcrReq' = [dcrReq EXCEPT ![r] =
       [Called(@, "branding", ok) EXCEPT
          !.response = CreatedResponse(r, dcrReq[r].clientId),
          !.pc = "done"]]
  /\ UNCHANGED <<dcrEnv, dcrScenario, dcrTable, dcrUserPool, dcrClock>>
  /\ UNCHANGED nonDcrVars

\* the registration Lambda before its first invocation
DcrStart ==
  /\ dcrReq = [r \in DcrReqs |-> IdleDcrReq]
  /\ dcrTable = [k \in {} |-> 0]
  /\ dcrUserPool = <<>>
  /\ dcrClock = 0

(***************************************************************************)
(* OpenID configuration proxy: openid-config.mjs                           *)
(***************************************************************************)

\* number of handler invocations of the OpenID configuration Lambda
MaxProxyReqs == 2

\* how often the clock advances between steps
MaxTicks == 2

ProxyReqs == 1..MaxProxyReqs

DefaultMaxAge == 3600

\* milliseconds the clock may advance by in one step: one second, or the
\* default lifetime of a cache entry
TimeSteps == {1000, 3600000}

ProxyEpoch == 1000

RequiredEnvVars == <<"COGNITO_USER_POOL_ID", "DEPLOYMENT_REGION", "REGISTRATION_ENDPOINT_URL">>

TEXT_region == <<"u", "s", "-", "e", "a", "s", "t", "-", "1">>
TEXT_registrationUrl ==
  <<"h", "t", "t", "p", "s", ":", "/", "/", "a", "u", "t", "h", ".", "e", "x",
    "a", "m", "p", "l", "e", ".", "c", "o", "m", "/", "r", "e", "g", "i", "s",
    "t", "e", "r">>

ProxyEnvComplete ==
  [k \in {"COGNITO_USER_POOL_ID", "DEPLOYMENT_REGION", "REGISTRATION_ENDPOINT_URL"} |->
     CASE k = "COGNITO_USER_POOL_ID" -> TEXT_poolId
       [] k = "DEPLOYMENT_REGION" -> TEXT_region
       [] OTHER -> TEXT_registrationUrl]

\* the complete environment, and each variable in turn unset or empty
ProxyEnvs ==
  {ProxyEnvComplete}
  \cup {[k \in (DOMAIN ProxyEnvComplete) \ {u} |-> ProxyEnvComplete[k]] :
          u \in DOMAIN ProxyEnvComplete}
  \cup {[ProxyEnvComplete EXCEPT ![u] = <<>>] : u \in DOMAIN ProxyEnvComplete}

\* a test for undefined only, which takes an empty value for a set one
EnvVarMissing_undefinedOnly(env, varName) == varName \notin DOMAIN env

\* requiredEnvVars.filter(varName => !process.env[varName])
EnvVarMissing(env, varName) == varName \notin DOMAIN env \/ env[varName] = <<>>

MissingVars(env) ==
  SelectSeq(RequiredEnvVars, LAMBDA varName : EnvVarMissing(env, varName))

STR_maxAgeEq == <<"m", "a", "x", "-", "a", "g", "e", "=">>

CC_zero == <<"m", "a", "x", "-", "a", "g", "e", "=", "0">>
CC_two == <<"m", "a", "x", "-", "a", "g", "e", "=", "2">>
CC_publicOne ==
  <<"p", "u", "b", "l", "i", "c", ",", " ", "m", "a", "x", "-", "a", "g", "e", "=", "1">>

\* the header is absent (headers.get returns null) or has a value
NoHeader == [present |-> FALSE, value |-> <<>>]
Header(value) == [present |-> TRUE, value |-> value]

\* the digits matched by (\d+) at position i
RECURSIVE DigitRun(_, _)
DigitRun(s, i) ==
  IF i <= Len(s) /\ IsDigit(s[i]) THEN <<s[i]>> \o DigitRun(s, i + 1) ELSE <<>>

\* cacheControl.match(/max-age=(\d+)/): start of the first match, 0 for null
MaxAgeMatch(s) ==
  LET n == Len(STR_maxAgeEq)
      At(i) == /\ i + n <= Len(s)
               /\ SubSeq(s, i, i + n - 1) = STR_maxAgeEq
               /\ IsDigit(s[i + n])
  IN  IF \E i \in 1..Len(s) : At(i)
      THEN CHOOSE i \in 1..Len(s) : At(i) /\ \A j \in 1..(i - 1) : ~At(j)
      ELSE 0

\* parseCacheControl: [isNull, value]
parseCacheControl(cacheControl) ==
  IF ~cacheControl.present \/ cacheControl.value = <<>>
  THEN [isNull |-> TRUE, value |-> 0]
  ELSE LET m == MaxAgeMatch(cacheControl.value)
       IN  IF m = 0 THEN [isNull |-> TRUE, value |-> 0]
           ELSE [isNull |-> FALSE,
                 value |-> ParseDigits(DigitRun(cacheControl.value, m + Len(STR_maxAgeEq)))]

\* parseCacheControl(cacheControl) || 3600
MaxAgeOf(cacheControl) ==
  LET parsed == parseCacheControl(cacheControl)
  IN  IF parsed.isNull \/ parsed.value = 0 THEN DefaultMaxAge ELSE parsed.value

\* two versions of the document Cognito publishes; the second carries
\* members of its own under the two names the proxy sets
Doc_v1 ==
  ("issuer" :> JTxt("https://cognito-idp.us-east-1.amazonaws.com/us-east-1_ABC"))
  @@ ("authorization_endpoint" :> JTxt("https://pool.auth/oauth2/authorize"))

Doc_v2 ==
  ("issuer" :> JTxt("https://cognito-idp.us-east-1.amazonaws.com/us-east-1_ABC"))
  @@ ("authorization_endpoint" :> JTxt("https://pool.auth/v2/authorize"))
  @@ ("registration_endpoint" :> JStr(URI_A))
  @@ ("code_challenge_methods_supported" :> JArr(<<"plain", "S256">>))

\* what fetch(cognitoConfigUrl) settles to: a rejection, or a Response whose
\* body may or may not be JSON
UpstreamResults ==
  { [rejected |-> TRUE, ok |-> FALSE, jsonOk |-> FALSE, doc |-> EmptyObject, cacheControl |-> NoHeader],
    [rejected |-> FALSE, ok |-> FALSE, jsonOk |-> TRUE, doc |-> EmptyObject, cacheControl |-> NoHeader],
    [rejected |-> FALSE, ok |-> TRUE, jsonOk |-> FALSE, doc |-> EmptyObject, cacheControl |-> NoHeader] }
  \cup { [rejected |-> FALSE, ok |-> TRUE, jsonOk |-> TRUE, doc |-> p[1], cacheControl |-> p[2]] :
           p \in {<<Doc_v1, NoHeader>>, <<Doc_v2, Header(CC_publicOne)>>,
                  <<Doc_v1, Header(CC_zero)>>, <<Doc_v2, Header(CC_two)>>} }

NoUpstream ==
  [rejected |-> FALSE, ok |-> FALSE, jsonOk |-> FALSE, doc |-> EmptyObject, cacheControl |-> NoHeader]

\* cachedConfig = null
NullConfig == [k \in {"null"} |-> Undefined]

\* a merge in the other order: the upstream document's members win
EnhancedConfig_upstreamWins(cognitoConfig, registrationEndpointUrl) ==
  Spread(("registration_endpoint" :> JStr(registrationEndpointUrl))
         @@ ("code_challenge_methods_supported" :> JArr(<<"S256">>)),
         cognitoConfig)

\* { ...cognitoConfig, registration_endpoint, code_challenge_methods_supported }
EnhancedConfig(cognitoConfig, registrationEndpointUrl) ==
  Spread(cognitoConfig,
         ("registration_endpoint" :> JStr(registrationEndpointUrl))
         @@ ("code_challenge_methods_supported" :> JArr(<<"S256">>)))

\* cachedConfig && Date.now() < cacheExpiry
CacheFresh_inclusive(config, expiry, now) == config # NullConfig /\ now <= expiry

CacheFresh_never(config, expiry, now) == FALSE

CacheFresh(config, expiry, now) == config # NullConfig /\ now < expiry

createErrorResponse(statusCode, error, errorDescription) ==
  [statusCode |-> statusCode,
   headers |-> [k \in {"Content-Type"} |-> "application/json"],
   body |-> ErrorBody(error, errorDescription)]

ProxyUnavailable ==
  createErrorResponse(500, "server_error", JTxt("OpenID configuration temporarily unavailable"))

ProxyOk(metadata) ==
  [statusCode |-> 200,
   headers |-> [k \in {"Content-Type", "Cache-Control"} |->
                  IF k = "Content-Type" THEN "application/json" ELSE "public, max-age=3600"],
   body |-> metadata]

IdleProxyReq ==
  [pc |-> "idle", response |-> NoResponse, upstream |-> NoUpstream,
   fetches |-> 0, fromCache |-> FALSE, pastExpiry |-> FALSE, stale |-> FALSE,
   seen |-> NullConfig]

\* the OpenID configuration Lambda before its first invocation
ProxyStart ==
  /\ proxyReq = [r \in ProxyReqs |-> IdleProxyReq]
  /\ cachedConfig = NullConfig
  /\ cacheExpiry = 0
  /\ proxyNow = ProxyEpoch
  /\ proxyTicks = 0

\* time passes
ProxyTick(d) ==
  /\ proxyTicks < MaxTicks
  /\ d \in TimeSteps
  /\ proxyNow' = proxyNow + d
  /\ proxyTicks' = proxyTicks + 1
  /\ UNCHANGED <<proxyEnv, proxyReq, cachedConfig, cacheExpiry>>
  /\ UNCHANGED nonProxyVars

\* the handler up to its first await: the environment check, then the cache
\* check of getOpenIDConfiguration, then either a response or fetch()
ProxyInvoke(r) ==
  /\ proxyReq[r].pc = "idle"
  /\ IF r = 1 THEN TRUE ELSE proxyReq[r - 1].pc # "idle"
  /\ LET \* history: the document in the slot if it is unexpired on arrival,
         \* whether the slot's expiry has been reached, and whether the slot
         \* holds a document whose expiry has been reached
         seen == IF proxyNow < cacheExpiry THEN cachedConfig ELSE NullConfig
         pastExpiry == proxyNow >= cacheExpiry
         stale == cachedConfig # NullConfig /\ proxyNow >= cacheExpiry
     IN  proxyReq' = [proxyReq EXCEPT ![r] =
           IF Len(MissingVars(proxyEnv)) > 0
           THEN [@ EXCEPT !.pc = "done", !.seen = seen, !.pastExpiry = pastExpiry, !.stale = stale,
                          !.response = ProxyUnavailable]
           ELSE IF CacheFresh(cachedConfig, cacheExpiry, proxyNow)
           THEN [@ EXCEPT !.pc = "done", !.seen = seen, !.pastExpiry = pastExpiry, !.stale = stale,
                          !.fromCache = TRUE,
                          !.response = ProxyOk(cachedConfig)]
           ELSE [@ EXCEPT !.pc = "fetch", !.seen = seen, !.pastExpiry = pastExpiry, !.stale = stale,
                          !.fetches = @ + 1]]
  /\ UNCHANGED <<proxyEnv, cachedConfig, cacheExpiry, proxyNow, proxyTicks>>
  /\ UNCHANGED nonProxyVars

\* await fetch(cognitoConfigUrl) settles; a rejection or a status that is not
\* ok reaches the handler's catch
ProxyFetch(r, res) ==
  /\ proxyReq[r].pc = "fetch"
  /\ res \in UpstreamResults
  /\ proxyReq' = [proxyReq EXCEPT ![r] =
       IF res.rejected \/ ~res.ok
       THEN [@ EXCEPT !.pc = "done", !.response = ProxyUnavailable]
       ELSE [@ EXCEPT !.pc = "json", !.upstream = res]]
  /\ UNCHANGED <<proxyEnv, cachedConfig, cacheExpiry, proxyNow, proxyTicks>>
  /\ UNCHANGED nonProxyVars

\* a cache write that stores the document and lets an expiry already in the
\* slot stand
ProxyJson_expiryKept(r) ==
  /\ proxyReq[r].pc = "json"
  /\ LET res == proxyReq[r].upstream
         enhancedConfig == EnhancedConfig(res.doc, proxyEnv["REGISTRATION_ENDPOINT_URL"])
         maxAge == MaxAgeOf(res.cacheControl)
     IN  IF res.jsonOk
         THEN /\ cachedConfig' = enhancedConfig
              /\ cacheExpiry' = IF cacheExpiry = 0 THEN proxyNow + maxAge * 1000
                                ELSE cacheExpiry
              /\ proxyReq' = [proxyReq EXCEPT ![r] =
                   [@ EXCEPT !.pc = "done",
                             !.response = ProxyOk(enhancedConfig)]]
         ELSE /\ UNCHANGED <<cachedConfig, cacheExpiry>>
              /\ proxyReq' = [proxyReq EXCEPT ![r] =
                   [@ EXCEPT !.pc = "done",
                             !.response = ProxyUnavailable]]
  /\ UNCHANGED <<proxyEnv, proxyNow, proxyTicks>>
  /\ UNCHANGED nonProxyVars

\* await response.json() settles; then the cache write and the response
ProxyJson(r) ==
  /\ proxyReq[r].pc = "json"
  /\ LET res == proxyReq[r].upstream
         enhancedConfig == EnhancedConfig(res.doc, proxyEnv["REGISTRATION_ENDPOINT_URL"])
         maxAge == MaxAgeOf(res.cacheControl)
     IN  IF res.jsonOk
         THEN /\ cachedConfig' = enhancedConfig
              /\ cacheExpiry' = proxyNow + maxAge * 1000
              /\ proxyReq' = [proxyReq EXCEPT ![r] =
                   [@ EXCEPT !.pc = "done",
                             !.response = ProxyOk(enhancedConfig)]]
         ELSE /\ UNCHANGED <<cachedConfig, cacheExpiry>>
              /\ proxyReq' = [proxyReq EXCEPT ![r] =
                   [@ EXCEPT !.pc = "done",
                             !.response = ProxyUnavailable]]
  /\ UNCHANGED <<proxyEnv, proxyNow, proxyTicks>>
  /\ UNCHANGED nonProxyVars

(***************************************************************************)
(* POST /mcp: bearer authentication (token-middleware.js, jwt-verifier.js)  *)
(***************************************************************************)

MaxMcpReqs == 2
McpReqs == 1..MaxMcpReqs

STR_openid == <<"o", "p", "e", "n", "i", "d">>
STR_bearer == <<"b", "e", "a", "r", "e", "r">>

RECURSIVE SplitFrom(_, _, _)
SplitFrom(text, sep, cur) ==
  IF text = <<>> THEN <<cur>>
  ELSE IF Head(text) = sep
  THEN <<cur>> \o SplitFrom(Tail(text), sep, <<>>)
  ELSE SplitFrom(Tail(text), sep, Append(cur, Head(text)))

\* String.prototype.split with a one-character separator
Split(text, sep) == SplitFrom(text, sep, <<>>)

\* a || b
JsOr(a, b) == IF Truthy(a) THEN a ELSE b

\* the payload of a token: its claims by name
Payload(scope, customTenantId, tenantId) ==
  LET s == IF scope.t = "undefined" THEN EmptyObject ELSE ("scope" :> scope)
      c == IF customTenantId.t = "undefined" THEN EmptyObject
           ELSE ("custom:tenantId" :> customTenantId)
      t == IF tenantId.t = "undefined" THEN EmptyObject ELSE ("tenantId" :> tenantId)
  IN  s @@ c @@ t @@ ("sub" :> JTxt("user-1")) @@ ("exp" :> JNum(2000000000))

SCOPE_openidProfile ==
  JStr(<<"o", "p", "e", "n", "i", "d", " ", "p", "r", "o", "f", "i", "l", "e">>)
SCOPE_openid == JStr(STR_openid)
SCOPE_profileEmail ==
  JStr(<<"p", "r", "o", "f", "i", "l", "e", " ", "e", "m", "a", "i", "l">>)
SCOPE_openidx == JStr(<<"o", "p", "e", "n", "i", "d", "x">>)

\* What a bearer string is as a JWT: how its key id, signature, validity window
\* and issuer stand with the configured pool, and its payload.
Jwt(kid, signature, window, issuer, payload) ==
  [kid |-> kid, signature |-> signature, window |-> window, issuer |-> issuer,
   payload |-> payload]

Tokens ==
  (<<"a">> :> Jwt("known", "good", "valid", "pool",
                  Payload(SCOPE_openidProfile, JTxt("acme"), Undefined)))
  @@ (<<"b">> :> Jwt("known", "good", "valid", "pool",
                  Payload(SCOPE_openid, Undefined, JTxt("globex"))))
  @@ (<<"c">> :> Jwt("known", "good", "valid", "pool",
                  Payload(SCOPE_profileEmail, JTxt("acme"), Undefined)))
  @@ (<<"d">> :> Jwt("known", "good", "valid", "pool",
                  Payload(Undefined, JTxt("acme"), Undefined)))
  @@ (<<"e">> :> Jwt("known", "good", "expired", "pool",
                  Payload(SCOPE_openid, JTxt("acme"), Undefined)))
  @@ (<<"f">> :> Jwt("known", "forged", "valid", "pool",
                  Payload(SCOPE_openid, JTxt("acme"), Undefined)))
  @@ (<<"g">> :> Jwt("unknown", "good", "valid", "pool",
                  Payload(SCOPE_openid, JTxt("acme"), Undefined)))
  @@ (<<"h">> :> Jwt("known", "good", "valid", "pool",
                  Payload(SCOPE_openid, Undefined, Undefined)))
  @@ (<<"n">> :> Jwt("known", "good", "notYet", "pool",
                  Payload(SCOPE_openid, JTxt("acme"), Undefined)))
  @@ (<<"w">> :> Jwt("known", "good", "valid", "other",
                  Payload(SCOPE_openid, JTxt("globex"), Undefined)))
  @@ (<<"x">> :> Jwt("known", "good", "valid", "pool",
                  Payload(SCOPE_openidx, JTxt("acme"), JTxt("globex"))))

Rejection(name, message) == [ok |-> FALSE, name |-> name, message |-> message]

MSG_poolIdRequired == "COGNITO_USER_POOL_ID environment variable is required"
MSG_keyCallback ==
  "error in secret or public key callback: Unable to find a signing key that matches the kid"
MSG_splitOfUndefined == "Cannot read properties of undefined (reading 'split')"

\* verifyToken: jwt.verify(token, getKey, {issuer, algorithms: ['RS256']});
\* a string that is no JWT is malformed; getKey's error comes back wrapped in
\* a JsonWebTokenError; the signature is checked before nbf, exp and iss.
verifyToken(token, userPoolId) ==
  IF userPoolId = <<>> THEN Rejection("Error", MSG_poolIdRequired)
  ELSE IF token \notin DOMAIN Tokens THEN Rejection("JsonWebTokenError", "jwt malformed")
  ELSE LET jwt == Tokens[token]
       IN  IF jwt.kid # "known" THEN Rejection("JsonWebTokenError", MSG_keyCallback)
           ELSE IF jwt.signature # "good"
           THEN Rejection("JsonWebTokenError", "invalid signature")
           ELSE IF jwt.window = "notYet" THEN Rejection("NotBeforeError", "jwt not active")
           ELSE IF jwt.window = "expired" THEN Rejection("TokenExpiredError", "jwt expired")
           ELSE IF jwt.issuer # "pool"
           THEN Rejection("JsonWebTokenError", "jwt issuer invalid")
           ELSE [ok |-> TRUE, decoded |-> jwt.payload]

\* error.message.includes('signing key')
IncludesSigningKey(message) == message = MSG_keyCallback

NoAuth == [token |-> <<>>, scopes |-> <<>>, extra |-> EmptyObject]

AuthError(kind, description) == [ok |-> FALSE, error |-> kind, description |-> description]

\* the catch of processJwt
ClassifyJwtError(name, message) ==
  IF name = "TokenExpiredError"
  THEN AuthError("InvalidTokenError",
                 "Authentication failed: Your token has expired. Please log in again.")
  ELSE IF name = "JsonWebTokenError"
  THEN AuthError("InvalidTokenError",
                 "Authentication failed: Invalid token format or signature.")
  ELSE IF name = "NotBeforeError"
  THEN AuthError("InvalidTokenError", "Authentication failed: Token not yet valid.")
  ELSE IF IncludesSigningKey(message)
  THEN AuthError("InvalidTokenError",
                 "Authentication failed: Token was not issued by the expected authority.")
  ELSE AuthError("ServerError", "Authentication failed: Token verification error.")

processJwt(token, userPoolId) ==
  LET verified == verifyToken(token, userPoolId)
  IN  IF ~verified.ok THEN ClassifyJwtError(verified.name, verified.message)
      ELSE LET userData == verified.decoded
           IN  IF Member(userData, "scope").t = "undefined"
               THEN ClassifyJwtError("TypeError", MSG_splitOfUndefined)
               ELSE [ok |-> TRUE,
                     authInfo |->
                       [token |-> token,
                        scopes |-> Split(userData["scope"].v, " "),
                        extra |->
                          ("userId" :> JsOr(Member(userData, "sub"), JTxt("anonymous")))
                          @@ ("tenantId" :>
                                JsOr(JsOr(Member(userData, "custom:tenantId"),
                                          Member(userData, "tenantId")), JTxt(""))) ]]

\* no scope is required
RequiredScopes_none == <<>>

\* requiredScopes: ["openid"]
RequiredScopes == <<STR_openid>>

\* requireBearerAuth before it calls the verifier: the Authorization header
BearerToken(header) ==
  IF ~Truthy(header)
  THEN AuthError("InvalidTokenError", "Missing Authorization header")
  ELSE LET parts == Split(header.v, " ")
           type == parts[1]
           token == IF Len(parts) > 1 THEN parts[2] ELSE <<>>
       IN  IF ToLower(type) # STR_bearer \/ token = <<>>
           THEN AuthError("InvalidTokenError",
                          "Invalid Authorization header format, expected 'Bearer TOKEN'")
           ELSE [ok |-> TRUE, token |-> token]

\* requiredScopes.every(scope => authInfo.scopes.includes(scope))
HasAllScopes(authInfo) ==
  \A i \in 1..Len(RequiredScopes) : Includes(authInfo.scopes, RequiredScopes[i])

\* requireBearerAuth once the verifier has settled
tokenMiddleware(token, userPoolId) ==
  LET result == processJwt(token, userPoolId)
  IN  IF ~result.ok THEN result
      ELSE IF ~HasAllScopes(result.authInfo)
      THEN AuthError("InsufficientScopeError", "Insufficient scope")
      ELSE result

McpResponse(statusCode, sender, error, description) ==
  [statusCode |-> statusCode, sender |-> sender, error |-> error,
   description |-> description]

NoMcpResponse == McpResponse(0, "", "", "")

\* the catch of requireBearerAuth
AuthErrorResponse(failure) ==
  IF failure.error = "InvalidTokenError"
  THEN McpResponse(401, "auth", "invalid_token", failure.description)
  ELSE IF failure.error = "InsufficientScopeError"
  THEN McpResponse(403, "auth", "insufficient_scope", failure.description)
  ELSE McpResponse(500, "auth", "server_error", failure.description)

(***************************************************************************)
(* POST /mcp: tools, resources and tenant credentials                      *)
(***************************************************************************)

\* `${tenantId}`
TenantText(tenantId) == IF tenantId.t = "undefined" THEN "undefined" ELSE tenantId.v

\* the AssumeRoleCommand input both client factories build
AssumeRoleCommand(tenantId) ==
  [RoleSessionName |-> <<"tenant-", TenantText(tenantId), "-session">>,
   Tags |-> <<[Key |-> "tenantId", Value |-> tenantId]>>]

\* what stsClient.send settles with
NoStsResponse == [settled |-> FALSE, rejected |-> FALSE, Credentials |-> Undefined]
StsRejected == [settled |-> TRUE, rejected |-> TRUE, Credentials |-> Undefined]
StsWithout == [settled |-> TRUE, rejected |-> FALSE, Credentials |-> Undefined]
StsWith(command) ==
  [settled |-> TRUE, rejected |-> FALSE,
   Credentials |-> [t |-> "credentials", v |-> command.Tags[1].Value]]

StsResponses(command) == {StsRejected, StsWithout, StsWith(command)}

\* the credentials of the task role, which carry no tenant tag
AmbientCredentials == [t |-> "credentials", v |-> JTxt("task-role")]

NoClient == [service |-> "", credentials |-> Undefined]
Thrown(message) == [threw |-> TRUE, message |-> message, client |-> NoClient]
Returned(client) == [threw |-> FALSE, message |-> "", client |-> client]

MSG_noCredentials == "Failed to obtain temporary credentials"
MSG_stsRejected == "AssumeRole rejected"

\* getDynamoDbClient after await stsClient.send(command)
getDynamoDbClient(response) ==
  IF response.rejected THEN Thrown(MSG_stsRejected)
  ELSE IF Truthy(response.Credentials)
  THEN Returned([service |-> "dynamodb", credentials |-> response.Credentials])
  ELSE Thrown(MSG_noCredentials)

\* a factory that falls back to the default credential chain
getS3Client_ambientFallback(response) ==
  IF response.rejected THEN Thrown(MSG_stsRejected)
  ELSE IF Truthy(response.Credentials)
  THEN Returned([service |-> "s3", credentials |-> response.Credentials])
  ELSE Returned([service |-> "s3", credentials |-> AmbientCredentials])

\* getS3Client after await stsClient.send(command)
getS3Client(response) ==
  IF response.rejected THEN Thrown(MSG_stsRejected)
  ELSE IF Truthy(response.Credentials)
  THEN Returned([service |-> "s3", credentials |-> response.Credentials])
  ELSE Thrown(MSG_noCredentials)

\* What a handler does up to its first await: it answers at once, or it asks
\* for a tenant client and names the storage command it will send with it.
Answer(error, description) ==
  [derive |-> FALSE, service |-> "", tenantId |-> Undefined, command |-> "",
   key |-> <<>>, error |-> error, description |-> description]
Derive(service, tenantId, command, key) ==
  [derive |-> TRUE, service |-> service, tenantId |-> tenantId, command |-> command,
   key |-> key, error |-> "", description |-> ""]

\* listBookings; every branch past the tenant test queries PK = tenantId
listBookings(arguments, authInfo) ==
  LET tenantId == Member(authInfo.extra, "tenantId")
  IN  IF tenantId.t = "undefined"
      THEN Answer("tool_error", "ERROR: No tenant ID provided")
      ELSE Derive("dynamodb", tenantId, "Query", <<TenantText(tenantId)>>)

\* bookFlight, scenario being faker.number.int({min: 1, max: 3})
bookFlight(arguments, authInfo, scenario) ==
  LET tenantId == Member(authInfo.extra, "tenantId")
  IN  IF scenario = 1
      THEN Derive("dynamodb", tenantId, "Put", <<TenantText(tenantId)>>)
      ELSE IF scenario = 2
      THEN Answer("tool_error", "ERROR: Credit card payment was declined.")
      ELSE Answer("tool_error", "ERROR: this flight has sold out")

\* bookHotel, scenario being faker.number.int({min: 1, max: 4})
bookHotel(arguments, authInfo, scenario) ==
  LET tenantId == Member(authInfo.extra, "tenantId")
  IN  IF scenario = 1
      THEN Derive("dynamodb", tenantId, "Put", <<TenantText(tenantId)>>)
      ELSE IF scenario = 2
      THEN Answer("tool_error", "ERROR: Payment processing failed.")
      ELSE IF scenario = 3
      THEN Answer("tool_error", "ERROR: this room type is no longer available")
      ELSE Answer("tool_error", "ERROR: The selected dates are invalid")

\* the list callback of the tenant-files template
TenantFilesList(authInfo) ==
  LET tenantId == Member(authInfo.extra, "tenantId")
  IN  Derive("s3", tenantId, "ListObjectsV2", <<TenantText(tenantId), "/">>)

\* a read callback that takes the tenant from the URI
TenantFilesRead_providedTenant(variables, authInfo) ==
  LET providedTenantId == variables["tenantId"]
      filename == variables["filename"]
  IN  Derive("s3", providedTenantId, "GetObject",
             <<TenantText(providedTenantId), "/", filename.v>>)

\* the read callback of the tenant-files template and getS3File
TenantFilesRead(variables, authInfo) ==
  LET actualTenantId == Member(authInfo.extra, "tenantId")
      providedTenantId == variables["tenantId"]
      filename == variables["filename"]
  IN  IF actualTenantId # providedTenantId
      THEN Answer("rpc_error", "Access denied: cannot access other tenant's files")
      ELSE Derive("s3", actualTenantId, "GetObject",
                  <<TenantText(actualTenantId), "/", filename.v>>)

\* the body of a POST /mcp: one JSON-RPC request
ToolCall(name, arguments) ==
  [method |-> "tools/call", name |-> name, arguments |-> arguments,
   variables |-> EmptyObject]
ResourcesList ==
  [method |-> "resources/list", name |-> "", arguments |-> EmptyObject,
   variables |-> EmptyObject]
ResourcesRead(tenantId, filename) ==
  [method |-> "resources/read", name |-> "", arguments |-> EmptyObject,
   variables |-> ("tenantId" :> JTxt(tenantId)) @@ ("filename" :> JTxt(filename))]
MalformedBody ==
  [method |-> "", name |-> "", arguments |-> EmptyObject, variables |-> EmptyObject]

\* the draws faker may make for a body
Scenarios(body) ==
  IF body.method = "tools/call" /\ body.name = "book_flight" THEN 1..3
  ELSE IF body.method = "tools/call" /\ body.name = "book_hotel" THEN 1..4
  ELSE {0}

\* the handler McpServer dispatches the body to
Dispatch(body, authInfo, scenario) ==
  IF body.method = "resources/list" THEN TenantFilesList(authInfo)
  ELSE IF body.method = "resources/read" THEN TenantFilesRead(body.variables, authInfo)
  ELSE IF body.name = "list_bookings" THEN listBookings(body.arguments, authInfo)
  ELSE IF body.name = "book_flight" THEN bookFlight(body.arguments, authInfo, scenario)
  ELSE IF body.name = "book_hotel" THEN bookHotel(body.arguments, authInfo, scenario)
  ELSE Answer("", "ok")

\* the factory a handler awaits
GetClient(service, response) ==
  IF service = "s3" THEN getS3Client(response) ELSE getDynamoDbClient(response)

(***************************************************************************)
(* POST /mcp: requests                                                     *)
(***************************************************************************)

Authorization(chars) == JStr(chars)

McpInput(header, body) == [header |-> header, body |-> body]

HDR_a == Authorization(<<"B", "e", "a", "r", "e", "r", " ", "a">>)
HDR_b == Authorization(<<"b", "e", "a", "r", "e", "r", " ", "b">>)
HDR_c == Authorization(<<"B", "e", "a", "r", "e", "r", " ", "c">>)
HDR_d == Authorization(<<"B", "e", "a", "r", "e", "r", " ", "d">>)
HDR_e == Authorization(<<"B", "e", "a", "r", "e", "r", " ", "e">>)
HDR_f == Authorization(<<"B", "e", "a", "r", "e", "r", " ", "f">>)
HDR_g == Authorization(<<"B", "e", "a", "r", "e", "r", " ", "g">>)
HDR_h == Authorization(<<"B", "e", "a", "r", "e", "r", " ", "h">>)
HDR_n == Authorization(<<"B", "e", "a", "r", "e", "r", " ", "n">>)
HDR_w == Authorization(<<"B", "e", "a", "r", "e", "r", " ", "w">>)
HDR_x == Authorization(<<"B", "e", "a", "r", "e", "r", " ", "x">>)
HDR_garbage == Authorization(<<"B", "e", "a", "r", "e", "r", " ", "z", "z">>)
HDR_empty == Authorization(<<"B", "e", "a", "r", "e", "r", " ">>)
HDR_basic == Authorization(<<"B", "a", "s", "i", "c", " ", "a">>)

TenantArgument(tenantId) == ("tenantId" :> JTxt(tenantId))

McpInputs ==
  << McpInput(HDR_a, ResourcesRead("acme", "notes.txt")),                   \* 1
     McpInput(HDR_a, ResourcesRead("globex", "notes.txt")),                 \* 2
     McpInput(HDR_b, ToolCall("list_bookings", TenantArgument("acme"))),    \* 3
     McpInput(HDR_a, ToolCall("book_flight", EmptyObject)),                 \* 4
     McpInput(Undefined, ToolCall("list_bookings", EmptyObject)),           \* 5
     McpInput(HDR_empty, ToolCall("list_bookings", EmptyObject)),           \* 6
     McpInput(HDR_basic, ToolCall("list_bookings", EmptyObject)),           \* 7
     McpInput(HDR_c, ResourcesList),                                        \* 8
     McpInput(HDR_d, ToolCall("list_bookings", EmptyObject)),               \* 9
     McpInput(HDR_e, ToolCall("book_hotel", EmptyObject)),                  \* 10
     McpInput(HDR_f, ResourcesRead("acme", "notes.txt")),                   \* 11
     McpInput(HDR_g, ToolCall("list_bookings", EmptyObject)),               \* 12
     McpInput(HDR_n, ResourcesList),                                        \* 13
     McpInput(HDR_w, ResourcesRead("globex", "notes.txt")),                 \* 14
     McpInput(HDR_garbage, ToolCall("whoami", EmptyObject)),                \* 15
     McpInput(HDR_a, MalformedBody),                                        \* 16
     McpInput(HDR_h, ToolCall("list_bookings", EmptyObject)),               \* 17
     McpInput(HDR_a, ResourcesList),                                        \* 18
     McpInput(HDR_b, ToolCall("book_hotel", TenantArgument("acme"))),       \* 19
     McpInput(HDR_a, ToolCall("whoami", EmptyObject)),                      \* 20
     McpInput(HDR_x, ToolCall("book_flight", EmptyObject)),                 \* 21
     McpInput(HDR_b, ResourcesRead("acme", "notes.txt")) >>                 \* 22

TEXT_mcpPoolId == <<"p", "o", "o", "l">>

\* the requests clients may send and config.COGNITO_USER_POOL_ID
McpScenarios ==
  { [inputs |-> {1, 2, 3, 4}, userPoolId |-> TEXT_mcpPoolId],
    [inputs |-> {5, 6, 7, 8, 9, 18}, userPoolId |-> TEXT_mcpPoolId],
    [inputs |-> {10, 11, 12, 13, 14}, userPoolId |-> TEXT_mcpPoolId],
    [inputs |-> {15, 16, 17, 21}, userPoolId |-> TEXT_mcpPoolId],
    [inputs |-> {18, 19, 20, 22}, userPoolId |-> TEXT_mcpPoolId],
    [inputs |-> {3, 20}, userPoolId |-> <<>>] }

IdleMcpReq ==
  [pc |-> "idle", input |-> 0, bodyLogged |-> FALSE, token |-> <<>>,
   auth |-> NoAuth, handled |-> FALSE, scenario |-> 0, stsCalls |-> <<>>,
   stsResponse |-> NoStsResponse, client |-> NoClient, storageOps |-> <<>>,
   response |-> NoMcpResponse]

\* the server before its first request
McpStart == mcpReq = [r \in McpReqs |-> IdleMcpReq]

McpBody(r) == McpInputs[mcpReq[r].input].body

\* express.json(), cors() and the request logging; a body that is no JSON is
\* answered 400 by express.json(), any other is parsed, logged and handed to
\* tokenMiddleware
McpReceive(r, i) ==
  /\ mcpReq[r].pc = "idle"
  /\ IF r = 1 THEN TRUE ELSE mcpReq[r - 1].pc # "idle"
  /\ i \in mcpScenario.inputs
  /\ mcpReq' = [mcpReq EXCEPT ![r] =
       IF McpInputs[i].body = MalformedBody
       THEN [@ EXCEPT !.pc = "done", !.input = i,
                      !.response = McpResponse(400, "express", "entity.parse.failed", "")]
       ELSE [@ EXCEPT !.pc = "auth", !.input = i, !.bodyLogged = TRUE]]
  /\ UNCHANGED mcpScenario
  /\ UNCHANGED nonMcpVars

\* tokenMiddleware up to await verifier.verifyAccessToken(token)
McpBearer(r) ==
  /\ mcpReq[r].pc = "auth"
  /\ LET bearer == BearerToken(McpInputs[mcpReq[r].input].header)
     IN  mcpReq' = [mcpReq EXCEPT ![r] =
           IF bearer.ok
           THEN [@ EXCEPT !.pc = "verify", !.token = bearer.token]
           ELSE [@ EXCEPT !.pc = "done", !.response = AuthErrorResponse(bearer)]]
  /\ UNCHANGED mcpScenario
  /\ UNCHANGED nonMcpVars

\* the verifier settles: the scope check, req.auth = authInfo and next(), or
\* the error response; postRequestHandler then runs up to await connect()
McpVerify(r) ==
  /\ mcpReq[r].pc = "verify"
  /\ LET result == tokenMiddleware(mcpReq[r].token, mcpScenario.userPoolId)
     IN  mcpReq' = [mcpReq EXCEPT ![r] =
           IF result.ok
           THEN [@ EXCEPT !.pc = "connect", !.auth = result.authInfo]
           ELSE [@ EXCEPT !.pc = "done", !.response = AuthErrorResponse(result)]]
  /\ UNCHANGED mcpScenario
  /\ UNCHANGED nonMcpVars

\* a handler that reads the tenant from a context shared between requests:
\* the auth of the request verified last
McpHandle_sharedContext(r, scenario) ==
  /\ mcpReq[r].pc = "connect"
  /\ scenario \in Scenarios(McpBody(r))
  /\ LET body == McpBody(r)
         lastVerified == CHOOSE q \in McpReqs :
                           /\ mcpReq[q].auth # NoAuth
                           /\ \A p \in McpReqs : mcpReq[p].auth # NoAuth => p <= q
         plan == Dispatch(body, mcpReq[lastVerified].auth, scenario)
     IN  mcpReq' = [mcpReq EXCEPT ![r] =
           IF body.method = "tools/call" /\ body.name = "whoami"
           THEN [@ EXCEPT !.pc = "whoami", !.handled = TRUE]
           ELSE IF plan.derive
           THEN [@ EXCEPT !.pc = "sts", !.handled = TRUE, !.scenario = scenario,
                          !.stsCalls = Append(@, AssumeRoleCommand(plan.tenantId))]
           ELSE [@ EXCEPT !.pc = "done", !.handled = TRUE, !.scenario = scenario,
                          !.response = McpResponse(200, "mcp", plan.error,
                                                   plan.description)]]
  /\ UNCHANGED mcpScenario
  /\ UNCHANGED nonMcpVars

\* transport.handleRequest: the handler of the body runs up to its first await
McpHandle(r, scenario) ==
  /\ mcpReq[r].pc = "connect"
  /\ scenario \in Scenarios(McpBody(r))
  /\ LET body == McpBody(r)
         plan == Dispatch(body, mcpReq[r].auth, scenario)
     IN  mcpReq' = [mcpReq EXCEPT ![r] =
           IF body.method = "tools/call" /\ body.name = "whoami"
           THEN [@ EXCEPT !.pc = "whoami", !.handled = TRUE]
           ELSE IF plan.derive
           THEN [@ EXCEPT !.pc = "sts", !.handled = TRUE, !.scenario = scenario,
                          !.stsCalls = Append(@, AssumeRoleCommand(plan.tenantId))]
           ELSE [@ EXCEPT !.pc = "done", !.handled = TRUE, !.scenario = scenario,
                          !.response = McpResponse(200, "mcp", plan.error,
                                                   plan.description)]]
  /\ UNCHANGED mcpScenario
  /\ UNCHANGED nonMcpVars

\* whoami: await verifyToken(token) settles; the tool derives no credentials
McpWhoami(r) ==
  /\ mcpReq[r].pc = "whoami"
  /\ LET verified == verifyToken(mcpReq[r].auth.token, mcpScenario.userPoolId)
     IN  mcpReq' = [mcpReq EXCEPT ![r] =
           [@ EXCEPT !.pc = "done",
                     !.response =
                       IF verified.ok THEN McpResponse(200, "mcp", "", "ok")
                       ELSE McpResponse(200, "mcp", "tool_error", verified.message)]]
  /\ UNCHANGED mcpScenario
  /\ UNCHANGED nonMcpVars

\* await stsClient.send(command) settles: the factory returns a client and the
\* handler sends its storage command with it, or the factory throws
McpAssumeRole(r, response) ==
  /\ mcpReq[r].pc = "sts"
  /\ response \in StsResponses(mcpReq[r].stsCalls[Len(mcpReq[r].stsCalls)])
  /\ LET plan == Dispatch(McpBody(r), mcpReq[r].auth, mcpReq[r].scenario)
         got == GetClient(plan.service, response)
     IN  mcpReq' = [mcpReq EXCEPT ![r] =
           IF got.threw
           THEN [@ EXCEPT !.pc = "done", !.stsResponse = response,
                          !.response =
                            McpResponse(200, "mcp",
                              IF McpBody(r).method = "tools/call" THEN "tool_error"
                              ELSE "rpc_error", got.message)]
           ELSE [@ EXCEPT !.pc = "storage", !.stsResponse = response,
                          !.client = got.client,
                          !.storageOps =
                            Append(@, [service |-> plan.service,
                                       command |-> plan.command, key |-> plan.key,
                                       credentials |-> got.client.credentials])]]
  /\ UNCHANGED mcpScenario
  /\ UNCHANGED nonMcpVars

\* await client.send(command) settles
McpStorage(r, ok) ==
  /\ mcpReq[r].pc = "storage"
  /\ mcpReq' = [mcpReq EXCEPT ![r] =
       [@ EXCEPT !.pc = "done",
                 !.response =
                   IF ok THEN McpResponse(200, "mcp", "", "ok")
                   ELSE McpResponse(200, "mcp",
                          IF McpBody(r).method = "tools/call" THEN "tool_error"
                          ELSE "rpc_error", "storage command failed")]]
  /\ UNCHANGED mcpScenario
  /\ UNCHANGED nonMcpVars

(***************************************************************************)
(* Protected resource metadata (oauth-metadata.js, env-config.ts)           *)
(***************************************************************************)

MaxMetaReqs == 2
MetaReqs == 1..MaxMetaReqs

\* config.get(varName, defaultValue): process.env first, then the .env file
ConfigGet(env, name, defaultValue) ==
  IF name \in DOMAIN env.process THEN JStr(env.process[name])
  ELSE IF name \in DOMAIN env.file THEN JStr(env.file[name])
  ELSE defaultValue

\* a test for a missing value only, which takes blanks for a value
isEmpty_noTrim(value) == ~Truthy(value)

isEmpty(value) == ~Truthy(value) \/ (value.t = "string" /\ Trim(value.v) = <<>>)

MSG_missingUrl == "Missing required environment variable: RESOURCE_SERVER_URL"
MSG_missingPool == "Missing required environment variable: COGNITO_USER_POOL_ID"
MSG_missingRegion == "Missing required environment variable: AWS_REGION"
MSG_urlProtocol == "Invalid RESOURCE_SERVER_URL format: must use http or https protocol"
MSG_urlFormat == "Invalid RESOURCE_SERVER_URL format: must be a valid URL"

\* a validation that stops at the first violation it finds
validateConfiguration_failFast(env) ==
  LET resourceServerUrl == ConfigGet(env, "RESOURCE_SERVER_URL", Undefined)
      cognitoUserPoolId == ConfigGet(env, "COGNITO_USER_POOL_ID", Undefined)
      awsRegion == ConfigGet(env, "AWS_REGION", Undefined)
      errors ==
        IF isEmpty(resourceServerUrl) THEN <<MSG_missingUrl>>
        ELSE IF isEmpty(cognitoUserPoolId) THEN <<MSG_missingPool>>
        ELSE IF isEmpty(awsRegion) THEN <<MSG_missingRegion>>
        ELSE LET url == ParseURL(resourceServerUrl.v)
             IN  IF ~url.ok THEN <<MSG_urlFormat>>
                 ELSE IF url.protocol # STR_http /\ url.protocol # STR_https
                 THEN <<MSG_urlProtocol>>
                 ELSE <<>>
  IN  [isValid |-> Len(errors) = 0, errors |-> errors]

validateConfiguration(env) ==
  LET resourceServerUrl == ConfigGet(env, "RESOURCE_SERVER_URL", Undefined)
      cognitoUserPoolId == ConfigGet(env, "COGNITO_USER_POOL_ID", Undefined)
      awsRegion == ConfigGet(env, "AWS_REGION", Undefined)
      e1 == IF isEmpty(resourceServerUrl) THEN <<MSG_missingUrl>> ELSE <<>>
      e2 == IF isEmpty(cognitoUserPoolId) THEN <<MSG_missingPool>> ELSE <<>>
      e3 == IF isEmpty(awsRegion) THEN <<MSG_missingRegion>> ELSE <<>>
      e4 == IF isEmpty(resourceServerUrl) THEN <<>>
            ELSE LET url == ParseURL(resourceServerUrl.v)
                 IN  IF ~url.ok THEN <<MSG_urlFormat>>
                     ELSE IF url.protocol # STR_http /\ url.protocol # STR_https
                     THEN <<MSG_urlProtocol>>
                     ELSE <<>>
      errors == e1 \o e2 \o e3 \o e4
  IN  [isValid |-> Len(errors) = 0, errors |-> errors]

\* `${value}` of a configuration value
ConfigText(value) == IF value.t = "undefined" THEN STR_undefined ELSE value.v

\* authorizationServerUrl.replace(/\/$/, '')
StripTrailingSlash(text) ==
  IF Len(text) > 0 /\ text[Len(text)] = "/" THEN SubSeq(text, 1, Len(text) - 1)
  ELSE text

STR_true == <<"t", "r", "u", "e">>
STR_false == <<"f", "a", "l", "s", "e">>
STR_cognitoIdp ==
  <<"h", "t", "t", "p", "s", ":", "/", "/", "c", "o", "g", "n", "i", "t", "o", "-",
    "i", "d", "p", ".">>
STR_amazonaws == <<".", "a", "m", "a", "z", "o", "n", "a", "w", "s", ".", "c", "o", "m", "/">>
STR_mcpPath == <<"/", "m", "c", "p">>

generateMetadata(env) ==
  LET resourceServerUrl == ConfigGet(env, "RESOURCE_SERVER_URL", Undefined)
      userPoolId == ConfigGet(env, "COGNITO_USER_POOL_ID", Undefined)
      region == ConfigGet(env, "AWS_REGION", Undefined)
      dcrEnabled == ToLower(ConfigGet(env, "DCR_ENABLED", JStr(STR_false)).v) = STR_true
      authorizationServerUrl == ConfigGet(env, "AUTHORIZATION_SERVER_WITH_DCR_URL", Undefined)
      resource == ConfigText(resourceServerUrl) \o STR_mcpPath
      authorizationServers ==
        IF dcrEnabled /\ Truthy(authorizationServerUrl)
        THEN <<StripTrailingSlash(authorizationServerUrl.v)>>
        ELSE <<STR_cognitoIdp \o ConfigText(region) \o STR_amazonaws
               \o ConfigText(userPoolId)>>
  IN  ("resource" :> JStr(resource))
      @@ ("authorization_servers" :> JArr(authorizationServers))
      @@ ("scopes_supported" :> JArr(<<"openid", "profile", "email">>))
      @@ ("bearer_methods_supported" :> JArr(<<"header">>))

MetaUnavailable ==
  [statusCode |-> 503,
   body |-> ("error" :> JTxt("service_unavailable"))
            @@ ("error_description" :>
                  JTxt("OAuth metadata temporarily unavailable due to configuration error"))]

\* the responses handleMetadataRequest sends, in order
handleMetadataRequest(env) ==
  LET validation == validateConfiguration(env)
  IN  IF ~validation.isValid THEN <<MetaUnavailable>>
      ELSE <<[statusCode |-> 200, body |-> generateMetadata(env)]>>

URL_resource ==
  <<"h", "t", "t", "p", "s", ":", "/", "/", "m", "c", "p", ".", "e", "x", "a", "m", "p",
    "l", "e", ".", "c", "o", "m">>
URL_resourceLocal ==
  <<"h", "t", "t", "p", ":", "/", "/", "l", "o", "c", "a", "l", "h", "o", "s", "t", ":",
    "3", "0", "0", "0">>
URL_resourcePadded ==
  <<" ", "H", "T", "T", "P", "S", ":", "/", "/", "m", "c", "p", ".", "e", "x", "a", "m",
    "p", "l", "e", ".", "c", "o", "m", " ">>
URL_ftp == <<"f", "t", "p", ":", "/", "/", "m", "c", "p", ".", "e", "x", "a", "m", "p",
             "l", "e", ".", "c", "o", "m">>
URL_noScheme == <<"m", "c", "p", ".", "e", "x", "a", "m", "p", "l", "e", ".", "c", "o", "m">>
URL_mailto == <<"m", "a", "i", "l", "t", "o", ":", "a", "@", "b">>
URL_authProxy ==
  <<"h", "t", "t", "p", "s", ":", "/", "/", "a", "u", "t", "h", ".", "e", "x", "a", "m",
    "p", "l", "e", ".", "c", "o", "m", "/">>
URL_authProxyHttp ==
  <<"h", "t", "t", "p", ":", "/", "/", "a", "u", "t", "h", ".", "e", "x", "a", "m", "p",
    "l", "e", ".", "c", "o", "m">>
TEXT_blank == <<" ", " ">>
TEXT_metaPool == <<"u", "s", "-", "e", "a", "s", "t", "-", "1", "_", "A", "B", "C">>
TEXT_metaRegion == <<"u", "s", "-", "e", "a", "s", "t", "-", "1">>

\* the value a variable has, or its absence
Setting(name, values) ==
  {[k \in {} |-> <<>>]} \cup {(name :> v) : v \in values}

\* the environments of the server: process.env and the parsed .env file
MetaEnvs ==
  { [process |-> u @@ p @@ g @@ d @@ a, file |-> f] :
      u \in Setting("RESOURCE_SERVER_URL",
                    {<<>>, TEXT_blank, URL_resource, URL_resourceLocal, URL_resourcePadded,
                     URL_ftp, URL_noScheme, URL_mailto}),
      p \in Setting("COGNITO_USER_POOL_ID", {<<>>, TEXT_blank, TEXT_metaPool}),
      g \in Setting("AWS_REGION", {TEXT_blank, TEXT_metaRegion}),
      d \in Setting("DCR_ENABLED", {<<"T", "r", "u", "e">>, STR_false}),
      a \in Setting("AUTHORIZATION_SERVER_WITH_DCR_URL",
                    {<<>>, URL_authProxy, URL_authProxyHttp}),
      f \in Setting("RESOURCE_SERVER_URL", {URL_resource}) }

MetaEnvDefault ==
  [process |-> ("RESOURCE_SERVER_URL" :> URL_resource)
               @@ ("COGNITO_USER_POOL_ID" :> TEXT_metaPool)
               @@ ("AWS_REGION" :> TEXT_metaRegion),
   file |-> [k \in {} |-> <<>>]]

NoValidation == [isValid |-> FALSE, errors |-> <<>>]

\* the server before its first metadata request
MetaStart ==
  metaReq = [r \in MetaReqs |-> [pc |-> "idle", validation |-> NoValidation, sent |-> <<>>]]

\* GET /.well-known/oauth-protected-resource: the handler is synchronous;
\* validation is what its call of validateConfiguration() returned
MetaGet(r) ==
  /\ metaReq[r].pc = "idle"
  /\ IF r = 1 THEN TRUE ELSE metaReq[r - 1].pc # "idle"
  /\ metaReq' = [metaReq EXCEPT ![r] =
       [pc |-> "done", validation |-> validateConfiguration(metaEnv),
        sent |-> @.sent \o handleMetadataRequest(metaEnv)]]
  /\ UNCHANGED metaEnv
  /\ UNCHANGED nonMetaVars

(***************************************************************************)
(* Specifications: one per component; the others rest in their start state *)
(***************************************************************************)

DcrAtRest ==
  /\ DcrStart
  /\ dcrEnv = [k \in {"COGNITO_USER_POOL_ID"} |-> TEXT_poolId]
  /\ dcrScenario = [events |-> {1}, faults |-> FALSE]

ProxyAtRest == ProxyStart /\ proxyEnv = ProxyEnvComplete

McpAtRest ==
  /\ McpStart
  /\ mcpScenario = [inputs |-> {1, 2, 3, 4}, userPoolId |-> TEXT_mcpPoolId]

MetaAtRest == MetaStart /\ metaEnv = MetaEnvDefault

InitDcr ==
  /\ DcrStart
  /\ dcrEnv \in DcrEnvs
  /\ dcrScenario \in DcrScenarios
  /\ ProxyAtRest /\ McpAtRest /\ MetaAtRest

NextDcr ==
  \/ \E r \in DcrReqs, e \in 1..Len(DcrEvents) : DcrInvoke(r, e)
  \/ \E r \in DcrReqs, ok \in BOOLEAN : DcrGetItem(r, ok)
  \/ \E r \in DcrReqs, ok \in BOOLEAN : DcrDescribe(r, ok)
  \/ \E r \in DcrReqs, ok \in BOOLEAN : DcrCreate(r, ok)
  \/ \E r \in DcrReqs, ok \in BOOLEAN : DcrStore(r, ok)
  \/ \E r \in DcrReqs, ok \in BOOLEAN : DcrBranding(r, ok)

SpecDcr == InitDcr /\ [][NextDcr]_vars

InitProxy ==
  /\ ProxyStart
  /\ proxyEnv \in ProxyEnvs
  /\ DcrAtRest /\ McpAtRest /\ MetaAtRest

NextProxy ==
  \/ \E d \in TimeSteps : ProxyTick(d)
  \/ \E r \in ProxyReqs : ProxyInvoke(r)
  \/ \E r \in ProxyReqs, res \in UpstreamResults : ProxyFetch(r, res)
  \/ \E r \in ProxyReqs : ProxyJson(r)

SpecProxy == InitProxy /\ [][NextProxy]_vars

InitMcp ==
  /\ McpStart
  /\ mcpScenario \in McpScenarios
  /\ DcrAtRest /\ ProxyAtRest /\ MetaAtRest

NextMcp ==
  \/ \E r \in McpReqs, i \in 1..Len(McpInputs) : McpReceive(r, i)
  \/ \E r \in McpReqs : McpBearer(r)
  \/ \E r \in McpReqs : McpVerify(r)
  \/ \E r \in McpReqs, scenario \in 0..4 : McpHandle(r, scenario)
  \/ \E r \in McpReqs : McpWhoami(r)
  \/ \E r \in McpReqs :
       \E response \in UNION {StsResponses(mcpReq[r].stsCalls[n]) :
                                n \in 1..Len(mcpReq[r].stsCalls)} :
         McpAssumeRole(r, response)
  \/ \E r \in McpReqs, ok \in BOOLEAN : McpStorage(r, ok)

SpecMcp == InitMcp /\ [][NextMcp]_vars

InitMeta ==
  /\ MetaStart
  /\ metaEnv \in MetaEnvs
  /\ DcrAtRest /\ ProxyAtRest /\ McpAtRest

NextMeta == \E r \in MetaReqs : MetaGet(r)

SpecMeta == InitMeta /\ [][NextMeta]_vars

(***************************************************************************)
(* Dynamic Client Registration: properties                                 *)
(***************************************************************************)

DcrConfigured ==
  "COGNITO_USER_POOL_ID" \in DOMAIN dcrEnv /\ dcrEnv["COGNITO_USER_POOL_ID"] # <<>>

DcrDone(r) == dcrReq[r].pc = "done"

\* the request went on to the dedup lookup
DcrProceeded(r) ==
  dcrReq[r].pc \notin {"idle", "done"} \/ dcrReq[r].calls["get"] > 0

\* the events the validation of the handler accepts
DcrValidEvents ==
  {e \in 1..Len(DcrEvents) :
     HandlerPrefix(DcrEvents[e],
                   [k \in {"COGNITO_USER_POOL_ID"} |-> TEXT_poolId]).statusCode = 0}

\* a request the validation of the handler accepts
DcrValidRequest(r) == dcrReq[r].ev \in DcrValidEvents

\* j is the same request as i, submitted after i had returned
DcrResubmitted(i, j) ==
  /\ i # j
  /\ DcrDone(i) /\ DcrDone(j)
  /\ i \in dcrReq[j].after
  /\ dcrReq[i].ev = dcrReq[j].ev
  /\ DcrValidRequest(i)

DcrSameClient(i, j) ==
  /\ dcrReq[i].response.statusCode = 201
  /\ dcrReq[j].response.statusCode = 201
  /\ dcrReq[i].response.body["client_id"].v = dcrReq[j].response.body["client_id"].v
  /\ ~dcrReq[j].created
  /\ dcrReq[j].calls["create"] = 0

\* no registration of the same pair other than i and j has created a client,
\* unless it had returned before i was submitted
DcrUndisturbed(i, j) ==
  \A k \in DcrReqs \ {i, j} :
    (dcrReq[k].created /\ DcrKey(k) = DcrKey(i)) => k \in dcrReq[i].after

LoopbackOrHttps(uri) ==
  LET u == ParseURL(uri)
  IN  /\ u.ok
      /\ \/ u.protocol = STR_https
         \/ u.protocol = STR_http /\ u.host = STR_localhost

\* C5: the handler goes on to the dedup lookup only if redirect_uris is a
\* non-empty array whose every entry is an absolute https URI or an http URI
\* on the host localhost.
C5_RedirectUrisRestricted ==
  \A r \in DcrReqs :
    DcrProceeded(r) =>
      LET uris == Member(DcrBody(r), "redirect_uris")
      IN  /\ uris.t = "array"
          /\ Len(uris.v) > 0
          /\ \A i \in 1..Len(uris.v) : LoopbackOrHttps(uris.v[i])

\* C6: every 201 body has token_endpoint_auth_method "none" and no
\* client_secret member.
C6_PublicClientOnly ==
  \A r \in DcrReqs :
    dcrReq[r].response.statusCode = 201 =>
      /\ dcrReq[r].response.body["token_endpoint_auth_method"] = JTxt("none")
      /\ "client_secret" \notin DOMAIN dcrReq[r].response.body

\* the request body names no client_id of its own
DcrNoClientIdMember(r) == "client_id" \notin DOMAIN DcrBody(r)

\* C15: once CreateUserPoolClient has succeeded for a request, the request
\* ends in 201 with the id of the client it created, whether or not the
\* PutItem of the dedup entry and the branding call succeed.
C15_CreatedMeansRegistered ==
  \A r \in DcrReqs :
    (dcrReq[r].created /\ DcrDone(r) /\ DcrNoClientIdMember(r)) =>
      /\ dcrReq[r].response.statusCode = 201
      /\ dcrReq[r].response.body["client_id"] = JStr(dcrReq[r].clientId)
      /\ \E i \in 1..Len(dcrUserPool) : dcrUserPool[i].ClientId = dcrReq[r].clientId

\* a registration whose client was created and whose PutItem and branding
\* calls both failed, answered 201 with the created client's id
C15_Witness ==
  \E r \in DcrReqs :
    /\ dcrReq[r].created /\ DcrDone(r)
    /\ {"put", "branding"} \subseteq dcrReq[r].failed
    /\ dcrReq[r].calls["put"] = 1 /\ dcrReq[r].calls["branding"] = 1
    /\ DcrKey(r) \notin DOMAIN dcrTable
    /\ dcrReq[r].response.statusCode = 201
    /\ dcrReq[r].response.body["client_id"] = JStr(dcrReq[r].clientId)


\* C18: every response of the registration handler, whatever its status and
\* whatever path produced it, carries Cache-Control: no-store.
C18_NeverStored ==
  \A r \in DcrReqs :
    DcrDone(r) =>
      /\ dcrReq[r].response.statusCode \in {201, 400, 405, 500}
      /\ "Cache-Control" \in DOMAIN dcrReq[r].response.headers
      /\ dcrReq[r].response.headers["Cache-Control"] = "no-store"

\* a body that is no JSON answered 400 and a body that is the JSON null
\* answered 500, both from the handler's catch and both marked no-store
C18_Witness ==
  \E r, q \in DcrReqs :
    /\ DcrDone(r) /\ DcrEvents[dcrReq[r].ev] = EV_garbage
    /\ dcrReq[r].response.statusCode = 400
    /\ dcrReq[r].response.headers["Cache-Control"] = "no-store"
    /\ DcrDone(q) /\ DcrEvents[dcrReq[q].ev] = EV_null
    /\ dcrReq[q].response.statusCode = 500
    /\ dcrReq[q].response.headers["Cache-Control"] = "no-store"


\* the two lists hold the same URIs the same number of times
IsPermutation(a, b) ==
  /\ Len(a) = Len(b)
  /\ \A i \in 1..Len(a) :
       Cardinality({n \in 1..Len(a) : a[n] = a[i]})
         = Cardinality({n \in 1..Len(b) : b[n] = a[i]})

\* i and j register the same client_name with the same redirect URIs, in
\* whatever order
DcrSamePair(i, j) ==
  /\ DcrValidRequest(i) /\ DcrValidRequest(j)
  /\ Member(DcrBody(i), "client_name") = Member(DcrBody(j), "client_name")
  /\ IsPermutation(DcrBody(i)["redirect_uris"].v, DcrBody(j)["redirect_uris"].v)

\* j was submitted after i had created its client and written the dedup
\* entry, and every lookup call of j was answered
DcrAfterEntryWritten(i, j) ==
  /\ i # j
  /\ DcrDone(i) /\ DcrDone(j) /\ i \in dcrReq[j].after
  /\ dcrReq[i].created /\ "put" \notin dcrReq[i].failed
  /\ dcrReq[j].failed = {}

\* C19: two orderings of the same redirect URIs under one client_name give
\* the same composite key, so a registration of [B,A] made after the dedup
\* entry of [A,B] was written is answered from that entry with its client_id
\* and creates no client.
C19_KeyIgnoresOrder ==
  \A i, j \in DcrReqs :
    (DcrConfigured /\ DcrSamePair(i, j)) =>
      /\ DcrKey(i) = DcrKey(j)
      /\ (DcrAfterEntryWritten(i, j) /\ DcrNoClientIdMember(j)) =>
           /\ dcrReq[j].response.statusCode = 201
           /\ ~dcrReq[j].created /\ dcrReq[j].calls["create"] = 0
           /\ \E k \in DcrReqs :
                /\ dcrReq[k].created /\ DcrKey(k) = DcrKey(j)
                /\ dcrReq[j].response.body["client_id"] = JStr(dcrReq[k].clientId)
           /\ DcrUndisturbed(i, j) =>
                dcrReq[j].response.body["client_id"] = JStr(dcrReq[i].clientId)

\* [A,B] was registered and created a client; [B,A] registered afterwards was
\* answered from the dedup index with that client's id
C19_Witness ==
  \E i, j \in DcrReqs :
    /\ DcrConfigured /\ DcrDone(i) /\ DcrDone(j)
    /\ DcrEvents[dcrReq[i].ev] = EV_ab /\ DcrEvents[dcrReq[j].ev] = EV_ba
    /\ DcrAfterEntryWritten(i, j)
    /\ dcrReq[j].calls["describe"] = 1 /\ dcrReq[j].calls["create"] = 0
    /\ dcrReq[j].response.statusCode = 201
    /\ dcrReq[j].response.body["client_id"] = JStr(dcrReq[i].clientId)


\* neither of the two invocations had returned when the other began
DcrOverlapped(i, j) ==
  /\ i # j
  /\ dcrReq[i].ev # 0 /\ dcrReq[j].ev # 0
  /\ i \notin dcrReq[j].after /\ j \notin dcrReq[i].after

\* two overlapping registrations of one pair that both created a client end
\* in 201 with client ids of their own
C21_BothCreate ==
  \A i, j \in DcrReqs :
    (/\ DcrOverlapped(i, j) /\ DcrSamePair(i, j)
     /\ DcrDone(i) /\ DcrDone(j)
     /\ dcrReq[i].created /\ dcrReq[j].created) =>
      /\ dcrReq[i].response.statusCode = 201 /\ dcrReq[j].response.statusCode = 201
      /\ dcrReq[i].clientId # dcrReq[j].clientId
      /\ DcrNoClientIdMember(i) =>
           dcrReq[i].response.body["client_id"] = JStr(dcrReq[i].clientId)
      /\ DcrNoClientIdMember(j) =>
           dcrReq[j].response.body["client_id"] = JStr(dcrReq[j].clientId)

\* the PutItem of request r is answered
DcrPutSucceeds(r) ==
  /\ dcrReq[r].pc = "put" /\ dcrReq'[r].pc = "branding"
  /\ "put" \notin dcrReq'[r].failed

\* a PutItem that is answered replaces whatever entry the key had; nothing
\* else changes the dedup index
C21_LastWriteWins ==
  /\ \A r \in DcrReqs :
       DcrPutSucceeds(r) =>
         /\ DcrKey(r) \in DOMAIN dcrTable'
         /\ dcrTable'[DcrKey(r)].clientId = dcrReq[r].clientId
         /\ \A k \in (DOMAIN dcrTable) \ {DcrKey(r)} :
              k \in DOMAIN dcrTable' /\ dcrTable'[k] = dcrTable[k]
  /\ (\A r \in DcrReqs : ~DcrPutSucceeds(r)) => dcrTable' = dcrTable

\* C21: two overlapping registrations of the same {client_name,
\* redirect_uris} can both miss the dedup lookup, create a client each and
\* return different client_ids; every answered PutItem overwrites the entry,
\* so the entry holds the clientId of the write that came last.
C21_RaceCreatesTwoClients == []C21_BothCreate /\ [][C21_LastWriteWins]_vars

\* two overlapping registrations of one pair, every call answered: both
\* missed, both created, the ids differ and the entry holds one of them
C21_Witness ==
  \E i, j \in DcrReqs :
    /\ DcrOverlapped(i, j) /\ DcrSamePair(i, j)
    /\ DcrDone(i) /\ DcrDone(j)
    /\ dcrReq[i].failed = {} /\ dcrReq[j].failed = {}
    /\ dcrReq[i].calls["describe"] = 0 /\ dcrReq[j].calls["describe"] = 0
    /\ dcrReq[i].created /\ dcrReq[j].created
    /\ dcrReq[i].response.body["client_id"] # dcrReq[j].response.body["client_id"]
    /\ Len(dcrUserPool) = 2
    /\ dcrTable[DcrKey(i)].clientId = dcrReq[j].clientId


\* the creation call of request r is rejected in this step
DcrCreateFails(r) ==
  /\ dcrReq[r].pc = "create"
  /\ "create" \in dcrReq'[r].failed

\* a request whose creation call was rejected made one attempt, stored
\* nothing, asked for no branding and answered the fixed 500
C24_FailedOnce ==
  \A r \in DcrReqs :
    "create" \in dcrReq[r].failed =>
      /\ DcrDone(r)
      /\ dcrReq[r].calls["create"] = 1
      /\ dcrReq[r].calls["put"] = 0 /\ dcrReq[r].calls["branding"] = 0
      /\ ~dcrReq[r].created
      /\ dcrReq[r].response.statusCode = 500
      /\ dcrReq[r].response.body["error"] = JTxt("server_error")
      /\ dcrReq[r].response.body["error_description"] = JTxt("Internal server error")

\* the step in which a creation is rejected ends the request and leaves the
\* dedup index and the user pool as they were
C24_NothingWritten ==
  \A r \in DcrReqs :
    DcrCreateFails(r) =>
      /\ dcrReq'[r].pc = "done"
      /\ dcrTable' = dcrTable
      /\ dcrUserPool' = dcrUserPool

DcrRefused(rec) ==
  \/ rec.response.statusCode = 405
  \/ /\ rec.response.statusCode = 400
     /\ rec.response.body["error"] \in
          {JTxt("invalid_request"), JTxt("invalid_redirect_uri"),
           JTxt("invalid_client_metadata")}

\* a refused request has made no call to the dedup store or the user pool
C25_RefusedMadeNoCall ==
  \A r \in DcrReqs :
    (DcrDone(r) /\ DcrRefused(dcrReq[r])) =>
      /\ \A st \in DcrStages : dcrReq[r].calls[st] = 0
      /\ dcrReq[r].clientId = <<>> /\ ~dcrReq[r].created

\* the step that refuses a request leaves the dedup index and the user pool
\* as they were
C25_RefusalWritesNothing ==
  \A r \in DcrReqs :
    (dcrReq[r].pc # "done" /\ dcrReq'[r].pc = "done" /\ DcrRefused(dcrReq'[r])) =>
      /\ dcrReq[r].pc = "idle"
      /\ dcrTable' = dcrTable
      /\ dcrUserPool' = dcrUserPool

\* C25: a registration refused with 405 or with 400 (content type, JSON,
\* redirect_uris, or authorization_code without the code response type, the
\* defaults applied) reads and writes no dedup entry and makes no describe,
\* create or branding call; the index and the user pool are unchanged.
C25_RefusedTouchesNothing ==
  []C25_RefusedMadeNoCall /\ [][C25_RefusalWritesNothing]_vars

\* a GET refused 405 and a POST refused 400 because its response_types lack
\* code while grant_types is left to its default; neither made a call
C25_Witness ==
  \E r, q \in DcrReqs :
    /\ DcrConfigured
    /\ DcrDone(r) /\ DcrEvents[dcrReq[r].ev] = EV_get
    /\ dcrReq[r].response.statusCode = 405
    /\ DcrDone(q) /\ DcrEvents[dcrReq[q].ev] = EV_responseOnly
    /\ dcrReq[q].response.statusCode = 400
    /\ dcrReq[q].response.body["error"] = JTxt("invalid_client_metadata")
    /\ dcrReq[r].calls = NoCalls /\ dcrReq[q].calls = NoCalls
    /\ dcrUserPool = <<>> /\ DOMAIN dcrTable = {}


\* C27: the client_id of every 201 is the ClientId of the user pool client
\* the request created or found through the dedup index, whatever members
\* the request body has.
C27_ClientIdFromUserPool ==
  \A r \in DcrReqs :
    (DcrDone(r) /\ dcrReq[r].response.statusCode = 201) =>
      /\ \E i \in 1..Len(dcrUserPool) : dcrUserPool[i].ClientId = dcrReq[r].clientId
      /\ dcrReq[r].response.body["client_id"] = JStr(dcrReq[r].clientId)


\* the user pool client with the given ClientId
DcrClientOf(clientId) ==
  CHOOSE c \in {dcrUserPool[i] : i \in 1..Len(dcrUserPool)} : c.ClientId = clientId

\* C28: registrations whose client_name differs or whose redirect URIs differ
\* as multisets have different dedup keys, and a registration answered from
\* the dedup index gets a client that was created for its own redirect URIs.
C28_KeyInjective ==
  /\ \A i, j \in DcrReqs :
       ( /\ DcrConfigured /\ DcrValidRequest(i) /\ DcrValidRequest(j)
         /\ DcrKey(i) = DcrKey(j) ) => DcrSamePair(i, j)
  /\ \A r \in DcrReqs :
       ( /\ DcrConfigured /\ DcrDone(r)
         /\ dcrReq[r].response.statusCode = 201 /\ ~dcrReq[r].created ) =>
         IsPermutation(DcrClientOf(dcrReq[r].clientId).CallbackURLs,
                       DcrBody(r)["redirect_uris"].v)


\* every dedup-store and user-pool call made so far was answered
DcrAllCallsSucceeded == \A r \in DcrReqs : dcrReq[r].failed = {}

\* j was submitted when the registrations under its dedup key had come to
\* rest: one of them had created a client and returned, and none that
\* creates a client was still running or ran beside j
DcrSubmittedAtRest(j) ==
  /\ DcrConfigured /\ DcrAllCallsSucceeded
  /\ DcrDone(j) /\ DcrValidRequest(j)
  /\ \E i \in dcrReq[j].after : dcrReq[i].created /\ DcrKey(i) = DcrKey(j)
  /\ \A k \in DcrReqs \ {j} :
       (dcrReq[k].created /\ DcrKey(k) = DcrKey(j)) => k \in dcrReq[j].after

ProxyDone(r) == proxyReq[r].pc = "done"

\* one of the three required variables is unset or empty
ProxyEnvIncomplete ==
  \E name \in {"COGNITO_USER_POOL_ID", "DEPLOYMENT_REGION", "REGISTRATION_ENDPOINT_URL"} :
    name \notin DOMAIN proxyEnv \/ proxyEnv[name] = <<>>

\* the response carries the document this request fetched itself
ProxyFreshlyFetched(r) ==
  /\ proxyReq[r].response.statusCode = 200
  /\ proxyReq[r].fetches = 1
  /\ ~proxyReq[r].fromCache
  /\ proxyReq[r].response.body =
       Spread(proxyReq[r].upstream.doc,
              ("registration_endpoint" :> JStr(proxyEnv["REGISTRATION_ENDPOINT_URL"]))
              @@ ("code_challenge_methods_supported" :> JArr(<<"S256">>)))

\* C7: no response is taken from the cache slot at or after the slot's expiry;
\* a request that arrives then returns a freshly fetched document or a 500.
C7_NeverServedPastExpiry ==
  \A r \in ProxyReqs :
    /\ proxyReq[r].fromCache => ~proxyReq[r].pastExpiry
    /\ (ProxyDone(r) /\ proxyReq[r].pastExpiry) =>
         \/ proxyReq[r].response.statusCode = 500
         \/ ProxyFreshlyFetched(r)

\* a request that found an expired document in the slot and was answered with
\* the document it then fetched itself
C7_Witness ==
  \E r \in ProxyReqs :
    /\ ProxyDone(r) /\ proxyReq[r].stale
    /\ ProxyFreshlyFetched(r)

\* C8: a request that arrives while the slot holds an unexpired document, with
\* the required configuration present, returns 200 with that document and
\* makes no upstream fetch.
C8_CacheHitNoFetch ==
  \A r \in ProxyReqs :
    (ProxyDone(r) /\ proxyReq[r].seen # NullConfig /\ ~ProxyEnvIncomplete) =>
      /\ proxyReq[r].response.statusCode = 200
      /\ proxyReq[r].response.body = proxyReq[r].seen
      /\ proxyReq[r].fetches = 0

\* a request answered from the slot another request's fetch had filled
C8_Witness ==
  \E r, q \in ProxyReqs :
    /\ r # q
    /\ ProxyDone(q) /\ proxyReq[q].fetches = 1 /\ proxyReq[q].response.statusCode = 200
    /\ ProxyDone(r) /\ proxyReq[r].seen # NullConfig
    /\ proxyReq[r].response.statusCode = 200 /\ proxyReq[r].fetches = 0

DeclaredLifetime(cacheControl) ==
  IF ~cacheControl.present THEN DefaultMaxAge
  ELSE IF cacheControl.value = CC_zero THEN 0
  ELSE IF cacheControl.value = CC_publicOne THEN 1
  ELSE IF cacheControl.value = CC_two THEN 2
  ELSE DefaultMaxAge

\* a request's fetch completes with a document: the slot is written
FetchCompletes(r) ==
  /\ proxyReq[r].pc = "json"
  /\ proxyReq'[r].pc = "done"
  /\ proxyReq'[r].response.statusCode = 200

C16_Step ==
  \A r \in ProxyReqs :
    FetchCompletes(r) =>
      cacheExpiry' = proxyNow + DeclaredLifetime(proxyReq[r].upstream.cacheControl) * 1000

\* C16: a fetch that completes at time t sets the cache expiry to t + N
\* seconds when the upstream Cache-Control carries max-age=N, for every
\* N >= 0, and to t + 3600 seconds only when it carries no max-age.
C16_ExpiryFromMaxAge == [][C16_Step]_vars


ProxySetMembers == {"registration_endpoint", "code_challenge_methods_supported"}

\* the served document is the upstream document with the two members set
ServesUpstream(served, upstream) ==
  /\ DOMAIN served = (DOMAIN upstream) \cup ProxySetMembers
  /\ \A k \in (DOMAIN upstream) \ ProxySetMembers : served[k] = upstream[k]
  /\ served["registration_endpoint"].t = "string"
  /\ served["registration_endpoint"].v = proxyEnv["REGISTRATION_ENDPOINT_URL"]
  /\ served["code_challenge_methods_supported"].t = "array"
  /\ served["code_challenge_methods_supported"].v = <<"S256">>

\* the request fetched a document itself
ProxyFetched(r) ==
  /\ ProxyDone(r) /\ proxyReq[r].response.statusCode = 200 /\ ~proxyReq[r].fromCache

\* C17: a 200 document is the upstream document it was made from (the one the
\* request fetched, or for a cache hit one an earlier request fetched) on
\* every member but registration_endpoint and code_challenge_methods_supported,
\* which are REGISTRATION_ENDPOINT_URL and ["S256"] whatever upstream says.
C17_TwoMembersMerged ==
  \A r \in ProxyReqs :
    (ProxyDone(r) /\ proxyReq[r].response.statusCode = 200) =>
      IF proxyReq[r].fromCache
      THEN \E q \in ProxyReqs :
             /\ ProxyFetched(q)
             /\ ServesUpstream(proxyReq[r].response.body, proxyReq[q].upstream.doc)
      ELSE ServesUpstream(proxyReq[r].response.body, proxyReq[r].upstream.doc)

\* a request fetched the upstream document that names a registration endpoint
\* and two challenge methods of its own, and another was served it from the cache
C17_Witness ==
  \E r, q \in ProxyReqs :
    /\ ProxyFetched(r) /\ proxyReq[r].upstream.doc = Doc_v2
    /\ proxyReq[r].response.body["registration_endpoint"].v = TEXT_registrationUrl
    /\ proxyReq[r].response.body["code_challenge_methods_supported"].v = <<"S256">>
    /\ proxyReq[r].response.body["authorization_endpoint"] = Doc_v2["authorization_endpoint"]
    /\ ProxyDone(q) /\ proxyReq[q].fromCache
    /\ proxyReq[q].response.body = proxyReq[r].response.body


\* the lifetime the code gives a document fetched with the header, in seconds
SlotLifetime(cacheControl) ==
  IF DeclaredLifetime(cacheControl) = 0 THEN DefaultMaxAge
  ELSE DeclaredLifetime(cacheControl)

\* the slot is empty, or holds a document with an expiry; every request whose
\* fetch brought a document has answered 200 with that document enhanced
C22_SlotAndResponses ==
  /\ cachedConfig = NullConfig <=> cacheExpiry = 0
  /\ \A r \in ProxyReqs :
       (ProxyDone(r) /\ proxyReq[r].upstream.ok /\ proxyReq[r].upstream.jsonOk) =>
         /\ proxyReq[r].response.statusCode = 200
         /\ ServesUpstream(proxyReq[r].response.body, proxyReq[r].upstream.doc)

\* a step writes the slot only as the completion of one request's fetch, and
\* then writes that fetch's document and that fetch's expiry together
C22_SlotWrittenWhole ==
  \/ cachedConfig' = cachedConfig /\ cacheExpiry' = cacheExpiry
  \/ \E r \in ProxyReqs :
       /\ FetchCompletes(r)
       /\ ServesUpstream(cachedConfig', proxyReq[r].upstream.doc)
       /\ cachedConfig' = proxyReq'[r].response.body
       /\ cacheExpiry' = proxyNow + SlotLifetime(proxyReq[r].upstream.cacheControl) * 1000

\* C22: under every interleaving of proxy requests the slot holds nothing or
\* one fetch's document with the expiry that same fetch computed, and every
\* request whose fetch succeeded answers 200 with the complete enhanced
\* document.
C22_SlotConsistent == []C22_SlotAndResponses /\ [][C22_SlotWrittenWhole]_vars

\* two requests refreshed the empty slot at once and fetched different
\* documents; both answered 200 and the slot holds the later writer's
\* document with its two-second expiry
C22_Witness ==
  \E r, q \in ProxyReqs :
    /\ r # q /\ proxyTicks = 0
    /\ ProxyFetched(r) /\ ProxyFetched(q)
    /\ proxyReq[r].upstream.doc = Doc_v1 /\ ~proxyReq[r].upstream.cacheControl.present
    /\ proxyReq[q].upstream.doc = Doc_v2
    /\ proxyReq[q].upstream.cacheControl = Header(CC_two)
    /\ cachedConfig = proxyReq[q].response.body
    /\ cacheExpiry = proxyNow + 2000


(***************************************************************************)
(* POST /mcp: properties                                                   *)
(***************************************************************************)

McpDone(r) == mcpReq[r].pc = "done"

\* the token is one jwt.verify accepts for the configured pool
TokenVerifies(token) ==
  /\ mcpScenario.userPoolId # <<>>
  /\ token \in DOMAIN Tokens
  /\ Tokens[token].kid = "known" /\ Tokens[token].signature = "good"
  /\ Tokens[token].window = "valid" /\ Tokens[token].issuer = "pool"

\* the scope claim of the token names openid
TokenHasOpenid(token) ==
  /\ token \in DOMAIN Tokens
  /\ "scope" \in DOMAIN Tokens[token].payload
  /\ LET scopes == Split(Tokens[token].payload["scope"].v, " ")
     IN  \E i \in 1..Len(scopes) : scopes[i] = STR_openid

\* the tenant id of the request's token: custom:tenantId, else tenantId, else ""
TokenTenant(r) ==
  LET payload == Tokens[mcpReq[r].token].payload
  IN  IF "custom:tenantId" \in DOMAIN payload /\ payload["custom:tenantId"].v # ""
      THEN payload["custom:tenantId"]
      ELSE IF "tenantId" \in DOMAIN payload /\ payload["tenantId"].v # ""
      THEN payload["tenantId"]
      ELSE JTxt("")

\* the aggregate state of a request, read off the state of its handling
Phase(r) ==
  LET q == mcpReq[r]
  IN  IF q.pc = "idle" \/ q.response.sender = "express" THEN "UNAUTHENTICATED"
      ELSE IF q.pc \in {"auth", "verify"} THEN "VERIFYING"
      ELSE IF q.response.sender = "auth" THEN "REJECTED"
      ELSE IF ~q.stsResponse.settled THEN "AUTHORIZED"
      ELSE IF q.client.service # "" THEN "CREDENTIALED"
      ELSE "CREDENTIAL_FAILED"

PhaseTransitions ==
  { <<"UNAUTHENTICATED", "VERIFYING">>,
    <<"VERIFYING", "AUTHORIZED">>, <<"VERIFYING", "REJECTED">>,
    <<"AUTHORIZED", "CREDENTIALED">>, <<"AUTHORIZED", "CREDENTIAL_FAILED">> }

\* a tenant-files read whose URI names another tenant than the token's
ForeignRead(r) ==
  /\ mcpReq[r].input # 0
  /\ McpBody(r).method = "resources/read"
  /\ mcpReq[r].handled
  /\ McpBody(r).variables["tenantId"] # TokenTenant(r)

\* a tool call with a tenantId argument naming another tenant than the token's
ForeignArgument(r) ==
  /\ mcpReq[r].input # 0
  /\ McpBody(r).method = "tools/call"
  /\ mcpReq[r].handled
  /\ "tenantId" \in DOMAIN McpBody(r).arguments
  /\ McpBody(r).arguments["tenantId"] # TokenTenant(r)

\* C2 as stated: every tenant-files read of an authenticated request yields a
\* role-assumption call tagged with the token's tenant id, also when the URI
\* names a different tenant id.
C2_Original ==
  \A r \in McpReqs :
    (McpDone(r) /\ mcpReq[r].handled /\ McpBody(r).method = "resources/read") =>
      /\ Len(mcpReq[r].stsCalls) = 1
      /\ mcpReq[r].stsCalls[1].Tags[1].Value = TokenTenant(r)

\* C2: every role-assumption call of a request is tagged with, and its session
\* named after, the tenant id of the request's verified token, never a tenant
\* id from a parameter; a tenant-files read whose URI names a different tenant
\* id is refused with 'Access denied' without any role-assumption call.
C2_TenantTagFromToken ==
  \A r \in McpReqs :
    /\ \A n \in 1..Len(mcpReq[r].stsCalls) :
         /\ TokenVerifies(mcpReq[r].token)
         /\ mcpReq[r].stsCalls[n].Tags =
              <<[Key |-> "tenantId", Value |-> TokenTenant(r)]>>
         /\ mcpReq[r].stsCalls[n].RoleSessionName =
              <<"tenant-", TokenTenant(r).v, "-session">>
    /\ ForeignRead(r) =>
         /\ Len(mcpReq[r].stsCalls) = 0
         /\ Len(mcpReq[r].storageOps) = 0
         /\ McpDone(r)
         /\ mcpReq[r].response =
              McpResponse(200, "mcp", "rpc_error",
                          "Access denied: cannot access other tenant's files")

\* one request named another tenant in a tool argument and its role-assumption
\* call carries the token's tenant; another named it in the URI and was refused
C2_Witness ==
  \E r, q \in McpReqs :
    /\ ForeignArgument(r) /\ Len(mcpReq[r].stsCalls) = 1
    /\ mcpReq[r].stsCalls[1].Tags[1].Value = TokenTenant(r)
    /\ ForeignRead(q) /\ McpDone(q) /\ mcpReq[q].response.error = "rpc_error"

C3_Guarded ==
  \A r \in McpReqs :
    /\ (\/ mcpReq[r].handled
        \/ Len(mcpReq[r].stsCalls) > 0
        \/ Phase(r) \in {"AUTHORIZED", "CREDENTIALED", "CREDENTIAL_FAILED"}) =>
         /\ TokenVerifies(mcpReq[r].token)
         /\ TokenHasOpenid(mcpReq[r].token)
    /\ Phase(r) \in {"UNAUTHENTICATED", "VERIFYING", "REJECTED"} =>
         /\ ~mcpReq[r].handled
         /\ Len(mcpReq[r].stsCalls) = 0
         /\ Len(mcpReq[r].storageOps) = 0
    /\ Phase(r) \in {"CREDENTIALED", "CREDENTIAL_FAILED"} =>
         Len(mcpReq[r].stsCalls) = 1

C3_Step ==
  \A r \in McpReqs :
    /\ Phase(r)' # Phase(r) => <<Phase(r), Phase(r)'>> \in PhaseTransitions
    /\ Phase(r) \in {"REJECTED", "CREDENTIALED", "CREDENTIAL_FAILED"} =>
         /\ Phase(r)' = Phase(r)
         /\ mcpReq'[r].stsCalls = mcpReq[r].stsCalls
         /\ mcpReq'[r].handled = mcpReq[r].handled

\* C3: a request moves UNAUTHENTICATED -> VERIFYING -> {AUTHORIZED | REJECTED}
\* and AUTHORIZED -> {CREDENTIALED | CREDENTIAL_FAILED} only; the handler and a
\* role-assumption call run only for a token that verifies and whose scopes
\* contain openid; a REJECTED request never reaches either; REJECTED,
\* CREDENTIALED and CREDENTIAL_FAILED are never left.
C3_RequestStateMachine == []C3_Guarded /\ [][C3_Step]_vars

\* one request was rejected for its scopes, one obtained credentials and one
\* failed to
C3_Witness ==
  \E r, q \in McpReqs :
    /\ Phase(r) = "REJECTED" /\ mcpReq[r].response.statusCode = 403
    /\ TokenVerifies(mcpReq[r].token) /\ ~TokenHasOpenid(mcpReq[r].token)
    /\ Phase(q) \in {"CREDENTIALED", "CREDENTIAL_FAILED"} /\ McpDone(q)

\* C4: a client exists only for a response that carried credentials, and it
\* holds those; a response without Credentials or a failed call leaves the
\* request with an error, no client and no storage command; no storage
\* command is sent with the task role's credentials.
C4_NoAmbientFallback ==
  \A r \in McpReqs :
    /\ mcpReq[r].client.service # "" =>
         /\ mcpReq[r].stsResponse.settled /\ ~mcpReq[r].stsResponse.rejected
         /\ Truthy(mcpReq[r].stsResponse.Credentials)
         /\ mcpReq[r].client.credentials.v = mcpReq[r].stsCalls[1].Tags[1].Value
    /\ (/\ mcpReq[r].stsResponse.settled
        /\ \/ mcpReq[r].stsResponse.rejected
           \/ ~Truthy(mcpReq[r].stsResponse.Credentials)) =>
         /\ mcpReq[r].client.service = ""
         /\ Len(mcpReq[r].storageOps) = 0
         /\ McpDone(r)
         /\ mcpReq[r].response.error \in {"tool_error", "rpc_error"}
    /\ \A n \in 1..Len(mcpReq[r].storageOps) :
         /\ mcpReq[r].storageOps[n].credentials.v # AmbientCredentials.v
         /\ mcpReq[r].storageOps[n].credentials.v = TokenTenant(r)

\* an S3 request and a DynamoDB request whose role assumption returned without
\* Credentials: both ended in an error and sent no storage command
C4_Witness ==
  \E r, q \in McpReqs :
    /\ McpDone(r) /\ McpDone(q)
    /\ McpBody(r).method = "resources/read" /\ McpBody(q).method = "tools/call"
    /\ \A x \in {r, q} :
         /\ mcpReq[x].stsResponse.settled /\ ~mcpReq[x].stsResponse.rejected
         /\ ~Truthy(mcpReq[x].stsResponse.Credentials)
         /\ McpDone(x) /\ Len(mcpReq[x].storageOps) = 0

\* the bearer token of the request has been through processJwt
McpVerified(r) ==
  /\ mcpReq[r].token \in DOMAIN Tokens
  /\ mcpReq[r].pc \notin {"idle", "auth", "verify"}
  /\ mcpScenario.userPoolId # <<>>

\* the key id of the token is not in the pool's published key set
TokenKeyUnknown(token) == Tokens[token].kid = "unknown"

\* the token is signed by a published key and is past its exp
TokenExpired(token) ==
  /\ Tokens[token].kid = "known" /\ Tokens[token].signature = "good"
  /\ Tokens[token].window = "expired"

\* C11: a token whose key id is not in the published key set is rejected with
\* 'Token was not issued by the expected authority', a validly signed expired
\* token with 'Your token has expired', and the two rejections are never the
\* same error.
C11_DistinctJwtFailures ==
  \A r \in McpReqs :
    McpVerified(r) =>
      /\ TokenKeyUnknown(mcpReq[r].token) =>
           /\ mcpReq[r].response.statusCode = 401
           /\ mcpReq[r].response.description =
                "Authentication failed: Token was not issued by the expected authority."
      /\ TokenExpired(mcpReq[r].token) =>
           /\ mcpReq[r].response.statusCode = 401
           /\ mcpReq[r].response.description =
                "Authentication failed: Your token has expired. Please log in again."
      /\ \A q \in McpReqs :
           (/\ McpVerified(q)
            /\ TokenKeyUnknown(mcpReq[r].token) /\ TokenExpired(mcpReq[q].token)) =>
             mcpReq[r].response.description # mcpReq[q].response.description

\* a token of the configured issuer, signed by a published key and within its
\* validity window, came out of processJwt as a failure
ProcessJwtFailed(r) ==
  /\ mcpReq[r].response.sender = "auth"
  /\ mcpReq[r].response.error \in {"invalid_token", "server_error"}

\* C12: processJwt returns the verified claims for every token signed by a
\* published key of the pool, issued by the pool and within its exp/nbf
\* window, whatever else its payload holds.
C12_IssuerTokensAccepted ==
  \A r \in McpReqs :
    (McpVerified(r) /\ TokenVerifies(mcpReq[r].token)) =>
      /\ ~ProcessJwtFailed(r)
      /\ processJwt(mcpReq[r].token, mcpScenario.userPoolId).ok

\* the classification of a rejection: what the response tells the caller
Classification(r) == <<mcpReq[r].response.error, mcpReq[r].response.description>>

McpHeader(r) == McpInputs[mcpReq[r].input].header

\* the Authorization header names the bearer scheme and carries no token
HeaderEmptyToken(header) ==
  /\ Truthy(header)
  /\ ToLower(Split(header.v, " ")[1]) = STR_bearer
  /\ \A i \in 2..Len(Split(header.v, " ")) : Split(header.v, " ")[i] = <<>>

\* the Authorization header names another scheme than bearer
HeaderOtherScheme(header) ==
  Truthy(header) /\ ToLower(Split(header.v, " ")[1]) # STR_bearer

\* C13: 'Authorization: Bearer ' with no token is rejected 401, with a
\* classification that differs from that of a request without the header and
\* from that of a request with a malformed scheme.
C13_EmptyTokenDistinct ==
  \A r \in McpReqs :
    (McpDone(r) /\ mcpReq[r].response.sender = "auth"
     /\ HeaderEmptyToken(McpHeader(r))) =>
      /\ mcpReq[r].response.statusCode = 401
      /\ \A q \in McpReqs :
           (McpDone(q) /\ mcpReq[q].response.sender = "auth"
            /\ (~Truthy(McpHeader(q)) \/ HeaderOtherScheme(McpHeader(q)))) =>
             Classification(r) # Classification(q)


\* every tenant id request r has put to use is the tenant id of r's own token
McpOwnTenantOnly(r) ==
  /\ \A n \in 1..Len(mcpReq[r].stsCalls) :
       /\ mcpReq[r].stsCalls[n].Tags[1].Value.v = TokenTenant(r).v
       /\ mcpReq[r].stsCalls[n].RoleSessionName[2] = TokenTenant(r).v
  /\ \A n \in 1..Len(mcpReq[r].storageOps) :
       /\ mcpReq[r].storageOps[n].key[1] = TokenTenant(r).v
       /\ mcpReq[r].storageOps[n].credentials.v = TokenTenant(r)
  /\ mcpReq[r].auth # NoAuth =>
       mcpReq[r].auth.extra["tenantId"].v = TokenTenant(r).v

C23_OwnTenant == \A r \in McpReqs : McpOwnTenantOnly(r)

\* a step of one request leaves what the other requests hold as it was
C23_RequestLocal ==
  \A r \in McpReqs :
    mcpReq'[r] # mcpReq[r] => \A q \in McpReqs \ {r} : mcpReq'[q] = mcpReq[q]

\* C23: under every interleaving of POST /mcp requests with tokens of
\* different tenants, each role-assumption call and each storage key or
\* prefix of a request carries the tenant id of that request's own verified
\* token, and no step of one request changes what another request holds.
C23_TenantIsolation == []C23_OwnTenant /\ [][C23_RequestLocal]_vars

\* two requests of different tenants in flight at once, each waiting for its
\* storage command under its own tenant's key and credentials
C23_Witness ==
  \E r, q \in McpReqs :
    /\ mcpReq[r].pc = "storage" /\ mcpReq[q].pc = "storage"
    /\ TokenTenant(r).v = "acme" /\ TokenTenant(q).v = "globex"
    /\ mcpReq[r].storageOps[1].key[1] = "acme"
    /\ mcpReq[q].storageOps[1].key[1] = "globex"
    /\ mcpReq[r].stsCalls[1].Tags[1].Value.v = "acme"
    /\ mcpReq[q].stsCalls[1].Tags[1].Value.v = "globex"


\* C26: a POST /mcp request that fails authentication or the scope check is
\* answered before the server has read, parsed or logged its body.
C26_BodyUntouchedOnRejection ==
  \A r \in McpReqs :
    (McpDone(r) /\ mcpReq[r].response.sender = "auth") => ~mcpReq[r].bodyLogged


\* the verified token of the request has neither custom:tenantId nor tenantId
McpNoTenantClaim(r) ==
  /\ McpVerified(r)
  /\ {"custom:tenantId", "tenantId"} \cap DOMAIN Tokens[mcpReq[r].token].payload = {}

\* C30: list_bookings under a verified token without a tenant-id claim
\* answers ERROR: No tenant ID provided and sends no AssumeRole, and no
\* AssumeRole is ever sent for an empty tenant id.
C30_NoTenantNoCredentials ==
  \A r \in McpReqs :
    /\ ( /\ McpNoTenantClaim(r) /\ mcpReq[r].handled
         /\ McpBody(r).method = "tools/call" /\ McpBody(r).name = "list_bookings" ) =>
         /\ Len(mcpReq[r].stsCalls) = 0
         /\ McpDone(r)
         /\ mcpReq[r].response.description = "ERROR: No tenant ID provided"
    /\ \A n \in 1..Len(mcpReq[r].stsCalls) :
         mcpReq[r].stsCalls[n].Tags[1].Value.v # ""


(***************************************************************************)
(* Protected resource metadata: properties                                 *)
(***************************************************************************)

\* the variable is unset, empty or made of blanks only
MetaBlank(name) ==
  LET value == IF name \in DOMAIN metaEnv.process THEN metaEnv.process[name]
               ELSE IF name \in DOMAIN metaEnv.file THEN metaEnv.file[name]
               ELSE <<>>
  IN  \A i \in 1..Len(value) : value[i] = " "

\* RESOURCE_SERVER_URL does not parse or is neither http nor https
MetaUrlInvalid ==
  LET value == IF "RESOURCE_SERVER_URL" \in DOMAIN metaEnv.process
               THEN metaEnv.process["RESOURCE_SERVER_URL"]
               ELSE IF "RESOURCE_SERVER_URL" \in DOMAIN metaEnv.file
               THEN metaEnv.file["RESOURCE_SERVER_URL"]
               ELSE <<>>
  IN  ~ParseURL(value).ok \/ ParseURL(value).protocol \notin {STR_http, STR_https}

MetaMisconfigured ==
  \/ MetaBlank("RESOURCE_SERVER_URL")
  \/ MetaBlank("COGNITO_USER_POOL_ID")
  \/ MetaBlank("AWS_REGION")
  \/ MetaUrlInvalid

MetaFields ==
  {"resource", "authorization_servers", "scopes_supported", "bearer_methods_supported"}

\* C10: a handled request has exactly one response: 200 with the four-field
\* document iff validateConfiguration reports valid, else the fixed 503; with
\* a required setting missing or blank or the URL invalid it is the 503.
C10_MetadataAllOrNothing ==
  \A r \in MetaReqs :
    /\ Len(metaReq[r].sent) = (IF metaReq[r].pc = "done" THEN 1 ELSE 0)
    /\ metaReq[r].pc = "done" =>
         LET response == metaReq[r].sent[1]
         IN  /\ response.statusCode \in {200, 503}
             /\ response.statusCode = 200 <=> validateConfiguration(metaEnv).isValid
             /\ response.statusCode = 200 =>
                  /\ DOMAIN response.body = MetaFields
                  /\ response.body = generateMetadata(metaEnv)
                  /\ response.body["resource"].v # STR_undefined \o STR_mcpPath
                  /\ Len(response.body["authorization_servers"].v) = 1
                  /\ response.body["authorization_servers"].v[1] # <<>>
             /\ response.statusCode = 503 => response = MetaUnavailable
             /\ MetaMisconfigured => response = MetaUnavailable

\* a request answered 503 because the pool id is blank while the other
\* settings are in order
C10_Witness ==
  /\ "COGNITO_USER_POOL_ID" \in DOMAIN metaEnv.process
  /\ metaEnv.process["COGNITO_USER_POOL_ID"] = TEXT_blank
  /\ ~MetaBlank("RESOURCE_SERVER_URL") /\ ~MetaUrlInvalid /\ ~MetaBlank("AWS_REGION")
  /\ \E r \in MetaReqs : metaReq[r].pc = "done" /\ metaReq[r].sent = <<MetaUnavailable>>

\* how many entries of the list are the message
Occurrences(list, message) == Cardinality({i \in 1..Len(list) : list[i] = message})

\* 1 for a condition that holds, 0 for one that does not
Indicator(condition) == IF condition THEN 1 ELSE 0

\* C14: the errors list validateConfiguration returns holds exactly one
\* missing-variable entry for each of RESOURCE_SERVER_URL,
\* COGNITO_USER_POOL_ID and AWS_REGION that is unset, empty or blank, one
\* URL-format entry iff RESOURCE_SERVER_URL is not blank and does not parse or
\* is neither http nor https, and nothing else; isValid iff the list is empty.
C14_ValidationErrorsExact ==
  \A r \in MetaReqs :
    metaReq[r].pc = "done" =>
      LET errors == metaReq[r].validation.errors
          urlBlank == MetaBlank("RESOURCE_SERVER_URL")
          poolBlank == MetaBlank("COGNITO_USER_POOL_ID")
          regionBlank == MetaBlank("AWS_REGION")
          urlFormat == ~urlBlank /\ MetaUrlInvalid
      IN  /\ Occurrences(errors, MSG_missingUrl) = Indicator(urlBlank)
          /\ Occurrences(errors, MSG_missingPool) = Indicator(poolBlank)
          /\ Occurrences(errors, MSG_missingRegion) = Indicator(regionBlank)
          /\ Occurrences(errors, MSG_urlFormat) + Occurrences(errors, MSG_urlProtocol)
               = Indicator(urlFormat)
          /\ Len(errors) = Indicator(urlBlank) + Indicator(poolBlank)
                           + Indicator(regionBlank) + Indicator(urlFormat)
          /\ metaReq[r].validation.isValid <=> errors = <<>>

\* a validation of a blank RESOURCE_SERVER_URL, an unset pool id and a blank
\* region: three missing-variable entries and no URL-format entry
C14_Witness ==
  \E r \in MetaReqs :
    /\ metaReq[r].pc = "done"
    /\ "RESOURCE_SERVER_URL" \in DOMAIN metaEnv.process
    /\ metaEnv.process["RESOURCE_SERVER_URL"] = TEXT_blank
    /\ "COGNITO_USER_POOL_ID" \notin DOMAIN metaEnv.process
    /\ "AWS_REGION" \in DOMAIN metaEnv.process
    /\ metaEnv.process["AWS_REGION"] = TEXT_blank
    /\ metaReq[r].validation.errors = <<MSG_missingUrl, MSG_missingPool, MSG_missingRegion>>
    /\ ~metaReq[r].validation.isValid

\* the text is an absolute URL of scheme https
AbsoluteHttps(text) == ParseURL(text).ok /\ ParseURL(text).protocol = STR_https

\* C20: every entry of authorization_servers in a 200 metadata response is an
\* absolute https URL, whether it names the user pool or the configured
\* authorization server with dynamic client registration.
C20_AuthorizationServersHttps ==
  \A r \in MetaReqs :
    (metaReq[r].pc = "done" /\ metaReq[r].sent[1].statusCode = 200) =>
      LET servers == metaReq[r].sent[1].body["authorization_servers"].v
      IN  \A i \in 1..Len(servers) : AbsoluteHttps(servers[i])

====
